---------------------------- MODULE Spec2Model ----------------------------
(***************************************************************************)
(* Fofa-hack: the proxy pool (ProxyManager), its background collection     *)
(* cycle, and the dual-mode page request of UnifiedFofaClient.             *)
(*                                                                         *)
(* A proxy is a positive integer (its identity is the URI string).  None   *)
(* stands for Python's None / the empty string (both falsy), IndexError    *)
(* for the exception raised by self.proxies[self.idx] when the cursor is   *)
(* not an index of the list.                                               *)
(*                                                                         *)
(* ProxyManager.pool (a Queue) is only ever written, never read, by the    *)
(* program; it is left out of the state.                                   *)
(***************************************************************************)
EXTENDS Integers, Sequences, FiniteSets, TLC

VARIABLES
    \* ---- ProxyManager (proxy.py:18-24, 111) ----
    proxies,        \* self.proxies : sequence of proxies
    failed,         \* self.failed  : dict proxy -> failure count
    idx,            \* self.idx     : rotation cursor (0-based)
    is_ready,       \* self.is_ready
    allow_direct,   \* self.allow_direct
    refreshing,     \* self._refreshing (absent attribute = FALSE)
    \* ---- threads ----
    caller,         \* caller[c] : position of thread c inside auto_refresh
    cyc,            \* cyc[t]    : the collection-cycle thread in slot t
    \* ---- last call of the pool's interface made by the foreground ----
    op, ret,
    \* ---- history ----
    track,          \* whether this behaviour records the history below
    strikes,        \* strikes[p]: mark_failed(p) calls since the last mark_success(p)
    streak,         \* streak[p]: the same, counted anew after every reset of the counts
    held,           \* the proxies p on which a mark_failed call completed FailLimit
                    \* calls with no mark_success in between and for which, in every
                    \* state since that call, the pool held another, usable proxy
    \* ---- UnifiedFofaClient (unified_client.py:37-57) ----
    mode,           \* self.mode
    cfg_proxy,      \* self.config.proxy
    api_client,     \* the proxy self._api_client was built with, or NoClient
    web_client,     \* the proxy self._web_client was built with, or NoClient
    total, success, failures, ban_count,    \* the session counters
    \* ---- the page request in progress: search(query, page) ----
    pc,             \* position of the foreground inside search()
    retry,          \* polls of the pool made in stage 2
    via,            \* the proxy the request in flight goes through
    result,         \* what the last page request returned
    page,           \* the page request in progress or last made: its max_retries,
                    \* the mode it started in, what the signed client gave in
                    \* stage 1 and what the anonymous request of stage 2 gave
    pages,          \* page requests made so far
    npass,          \* the orchestrator's pass: 1, or 2 after the counters' reset
    \* ---- search_all and the orchestrator (fofa.py search) ----
    sa,             \* the page-iteration pass in progress or last made
    orch,           \* the orchestrator's position and what it holds
    \* ---- ApiFofaClient (api_client.py) ----
    fetch,          \* one page fetch of the signed client: search(query, page)
    \* ---- ProxyManager._validate_proxy (proxy.py:132-188) ----
    probe           \* one validation of a candidate proxy

poolVars == <<proxies, failed, idx, is_ready, allow_direct, refreshing>>
obsVars == <<op, ret>>
histVars == <<track, strikes, streak, held>>
engVars == <<mode, cfg_proxy, api_client, web_client,
            total, success, failures, ban_count, pc, retry, via, result,
            page, pages, npass, sa, orch, fetch, probe>>
vars == <<poolVars, caller, cyc, obsVars, histVars, engVars>>

(***************************************************************************)
(* Values                                                                  *)
(***************************************************************************)
None == 0
IndexError == -1
\* self._api_client is None / self._web_client is None
NoClient == -2
\* a response body without a "total" entry
Absent == -1

\* the failure count from which a proxy is no longer usable
FailLimit == 3
\* stage 2: for retry in range(8)
Polls == 8
\* first validation wave: collected[:min(20, len(collected))]
FirstWave == 20
\* adoption threshold: len(valid) >= 5
AdoptMin == 5
\* second validation wave: remaining[:50]
SecondWave == 50
\* search_all(..., max_consecutive_failures=3)
DefaultThreshold == 3
\* fofa.py: client.search_all(query, max_pages=20)
OrchMaxPages == 20
\* fofa.py: len(results) < min(count, 10)
UnderDelivery == 10
\* fofa.py: for i in range(15)
ReadyPolls == 15
\* fofa.py: client.proxy_manager.count >= 3
MinPool == 3
\* api_client.py: _make_request(self, url, max_retries=3)
MaxRetries == 3

(***************************************************************************)
(* Bounds of the model                                                     *)
(***************************************************************************)
\* proxies the foreground names in add_proxy / mark_failed / mark_success
NProxy == 2
\* mark_failed is not called on a proxy whose count has reached MaxFail
MaxFail == 3
\* page requests the foreground makes
MaxPages == 2
\* collection-cycle threads that can be alive at once
MaxCycles == 2
\* the longest de-duplicated candidate list the sources deliver
MaxCand == 72
\* the largest target count (end_count) of a pass
MaxTarget == 3
\* the largest page limit (max_pages) of a pass
MaxLimit == 4
\* the total a server reports when it holds far more than a pass asks for
ManyResults == 100

Proxy == 1..NProxy

(***************************************************************************)
(* Helpers                                                                 *)
(***************************************************************************)
EmptyDict == [x \in {} |-> 0]

\* dict.get(p, 0)
Get(f, p) == IF p \in DOMAIN f THEN f[p] ELSE 0

Elems(s) == {s[i] : i \in 1..Len(s)}

NoDup(s) == Cardinality(Elems(s)) = Len(s)

\* s[:n]
Take(s, n) == SubSeq(s, 1, IF n < Len(s) THEN n ELSE Len(s))

\* [x for x in s if x not in S]
Without(s, S) == SelectSeq(s, LAMBDA x : x \notin S)

\* a variant: the threshold test off by one
UsableOffByOne(fl, p) == Get(fl, p) <= FailLimit

\* failed.get(p, 0) < 3
Usable(fl, p) == Get(fl, p) < FailLimit

(***************************************************************************)
(* ProxyManager: the pure part of each operation                           *)
(***************************************************************************)
\* a variant: the proxy is appended without the membership test
add_proxy_unchecked(ps, p) ==
    IF p # None THEN Append(ps, p) ELSE ps

\* add_proxy: proxies after the call
add_proxy(ps, p) ==
    IF p # None /\ p \notin Elems(ps) THEN Append(ps, p) ELSE ps

\* all(self.failed.get(p, 0) >= 3 for p in self.proxies)
AllExhausted(ps, fl) == \A k \in 1..Len(ps) : ~Usable(fl, ps[k])

\* a variant: the counts are never cleared
reset_never(ps, fl) == fl

\* the reset of get_proxy: the dict after lines 49-51
reset_policy(ps, fl) ==
    IF ps # <<>> /\ AllExhausted(ps, fl) THEN EmptyDict ELSE fl

\* for _ in range(len(self.proxies)): ...   (n iterations left, cursor i)
RECURSIVE get_proxy_loop(_, _, _, _)
get_proxy_loop(ps, fl, i, n) ==
    IF n = 0 THEN [idx |-> i, ret |-> None]
    ELSE IF i >= Len(ps) THEN [idx |-> i, ret |-> IndexError]
    ELSE LET proxy == ps[i + 1]
             j == (i + 1) % Len(ps)
         IN  IF Usable(fl, proxy) THEN [idx |-> j, ret |-> proxy]
             ELSE get_proxy_loop(ps, fl, j, n - 1)

\* a variant: the proxy under the cursor is returned without looking at
\* its count
get_proxy_unchecked(ps, fl, i) ==
    IF ps = <<>> \/ i >= Len(ps) THEN [failed |-> fl, idx |-> i, ret |-> None]
    ELSE [failed |-> fl, idx |-> (i + 1) % Len(ps), ret |-> ps[i + 1]]

\* get_proxy: the dict and cursor after the call, and what it returns
get_proxy(ps, fl, i) ==
    IF ps = <<>> THEN [failed |-> fl, idx |-> i, ret |-> None]
    ELSE LET fl2 == reset_policy(ps, fl)
             r == get_proxy_loop(ps, fl2, i, Len(ps))
         IN  [failed |-> fl2, idx |-> r.idx, ret |-> r.ret]

\* the loop of get_next_proxy
RECURSIVE get_next_loop(_, _, _, _, _)
get_next_loop(ps, fl, i, cur, n) ==
    IF n = 0
    THEN [idx |-> i, ret |-> IF ~Usable(fl, ps[1]) THEN None ELSE ps[1]]
    ELSE IF i >= Len(ps) THEN [idx |-> i, ret |-> IndexError]
    ELSE LET proxy == ps[i + 1]
             j == (i + 1) % Len(ps)
         IN  IF proxy # cur /\ Usable(fl, proxy) THEN [idx |-> j, ret |-> proxy]
             ELSE get_next_loop(ps, fl, j, cur, n - 1)

\* a variant: the single proxy is returned without looking at its count
get_next_proxy_unchecked(ps, fl, i, cur) ==
    IF ps = <<>> THEN [idx |-> i, ret |-> None]
    ELSE IF Len(ps) = 1
         THEN [idx |-> i, ret |-> ps[1]]
         ELSE get_next_loop(ps, fl, i, cur, Len(ps))

\* get_next_proxy(current_proxy): the cursor after the call, and what it returns
get_next_proxy(ps, fl, i, cur) ==
    IF ps = <<>> THEN [idx |-> i, ret |-> None]
    ELSE IF Len(ps) = 1
         THEN [idx |-> i, ret |-> IF Usable(fl, ps[1]) THEN ps[1] ELSE None]
         ELSE get_next_loop(ps, fl, i, cur, Len(ps))

\* mark_failed: the dict after the call
mark_failed(fl, p) ==
    IF p # None
    THEN [x \in DOMAIN fl \cup {p} |-> IF x = p THEN Get(fl, p) + 1 ELSE fl[x]]
    ELSE fl

\* a variant: the entry is removed when its count reaches zero
mark_success_deleting(fl, p) ==
    IF p # None /\ p \in DOMAIN fl
    THEN IF fl[p] - 1 > 0
         THEN [fl EXCEPT ![p] = fl[p] - 1]
         ELSE [x \in DOMAIN fl \ {p} |-> fl[x]]
    ELSE fl

\* mark_success: the dict after the call
mark_success(fl, p) ==
    IF p # None /\ p \in DOMAIN fl
    THEN [fl EXCEPT ![p] = IF fl[p] - 1 > 0 THEN fl[p] - 1 ELSE 0]
    ELSE fl

(***************************************************************************)
(* History bookkeeping                                                     *)
(***************************************************************************)
\* some proxy of the pool other than p is usable
OtherUsable(p, ps, fl) == \E k \in 1..Len(ps) : ps[k] # p /\ Usable(fl, ps[k])

\* the history counters, which stop at FailLimit
Struck(h, p) == IF track THEN [h EXCEPT ![p] = IF @ < FailLimit THEN @ + 1 ELSE @] ELSE h

Cleared(h, p) == IF track THEN [h EXCEPT ![p] = 0] ELSE h

\* the members of base for which the pool (ps, fl) holds another, usable proxy
HeldAfter(base, ps, fl) ==
    IF track THEN {p \in base : OtherUsable(p, ps, fl)} ELSE held

Min(a, b) == IF a < b THEN a ELSE b

FgIdle == caller[1] = "idle"

(***************************************************************************)
(* The foreground calling the pool's interface                             *)
(***************************************************************************)
AddProxy(p) ==
    /\ FgIdle
    /\ proxies' = add_proxy(proxies, p)
    /\ op' = "add_proxy" /\ ret' = None
    /\ held' = HeldAfter(held, proxies', failed)
    /\ UNCHANGED <<failed, idx, is_ready, allow_direct, refreshing,
                   caller, cyc, track, strikes, streak, engVars>>

GetProxy ==
    /\ FgIdle
    /\ LET r == get_proxy(proxies, failed, idx)
       IN  /\ failed' = r.failed
           /\ idx' = r.idx
           /\ ret' = r.ret
    /\ op' = "get_proxy"
    /\ streak' = IF track /\ failed' # failed THEN [p \in Proxy |-> 0] ELSE streak
    /\ held' = HeldAfter(held, proxies, failed')
    /\ UNCHANGED <<proxies, is_ready, allow_direct, refreshing,
                   caller, cyc, track, strikes, engVars>>

GetNextProxy(x) ==
    /\ FgIdle
    /\ LET r == get_next_proxy(proxies, failed, idx, x)
       IN  /\ idx' = r.idx
           /\ ret' = r.ret
    /\ op' = "get_next_proxy"
    /\ UNCHANGED <<proxies, failed, is_ready, allow_direct, refreshing,
                   caller, cyc, histVars, engVars>>

\* a variant: a proxy that reaches the threshold is taken out of the list
MarkFailedDeleting(p) ==
    /\ FgIdle
    /\ Get(failed, p) < MaxFail
    /\ failed' = mark_failed(failed, p)
    /\ proxies' = IF Usable(failed', p) THEN proxies ELSE Without(proxies, {p})
    /\ op' = "mark_failed" /\ ret' = None
    /\ strikes' = Struck(strikes, p)
    /\ streak' = Struck(streak, p)
    /\ held' = HeldAfter(held \cup (IF strikes'[p] >= FailLimit THEN {p} ELSE {}),
                         proxies', failed')
    /\ UNCHANGED <<idx, is_ready, allow_direct, refreshing,
                   caller, cyc, track, engVars>>

MarkFailed(p) ==
    /\ FgIdle
    /\ Get(failed, p) < MaxFail
    /\ failed' = mark_failed(failed, p)
    /\ op' = "mark_failed" /\ ret' = None
    /\ strikes' = Struck(strikes, p)
    /\ streak' = Struck(streak, p)
    /\ held' = HeldAfter(held \cup (IF strikes'[p] >= FailLimit THEN {p} ELSE {}),
                         proxies, failed')
    /\ UNCHANGED <<proxies, idx, is_ready, allow_direct, refreshing,
                   caller, cyc, track, engVars>>

MarkSuccess(p) ==
    /\ FgIdle
    /\ failed' = mark_success(failed, p)
    /\ op' = "mark_success" /\ ret' = None
    /\ strikes' = Cleared(strikes, p)
    /\ streak' = Cleared(streak, p)
    /\ held' = HeldAfter(held \ {p}, proxies, failed')
    /\ UNCHANGED <<proxies, idx, is_ready, allow_direct, refreshing,
                   caller, cyc, track, engVars>>

(***************************************************************************)
(* auto_refresh: the test of the flag, then its setting and the start of   *)
(* the thread, as two steps of the calling thread c                        *)
(***************************************************************************)
IdleCycle == [pc |-> "idle", collected |-> <<>>, valid |-> <<>>, more_valid |-> <<>>]

Running(t) == cyc[t].pc # "idle"

FreeSlots == {t \in DOMAIN cyc : ~Running(t)}

\* a variant: the flag is not looked at
AutoRefreshUnguarded(c) ==
    /\ caller[c] = "idle"
    /\ caller' = [caller EXCEPT ![c] = "checked"]
    /\ op' = "auto_refresh" /\ ret' = None
    /\ UNCHANGED <<poolVars, cyc, histVars, engVars>>

\* if hasattr(self, '_refreshing') and self._refreshing: return
AutoRefreshCheck(c) ==
    /\ caller[c] = "idle"
    /\ caller' = [caller EXCEPT ![c] = IF refreshing THEN "idle" ELSE "checked"]
    /\ op' = "auto_refresh" /\ ret' = None
    /\ UNCHANGED <<poolVars, cyc, histVars, engVars>>

\* self._refreshing = True; Thread(target=self._refresh_background).start()
\* (a thread needs a free slot: the cap on the number of threads alive)
AutoRefreshStart(c) ==
    /\ caller[c] = "checked"
    /\ FreeSlots # {}
    /\ refreshing' = TRUE
    /\ LET t == CHOOSE s \in FreeSlots : \A u \in FreeSlots : s <= u
       IN  cyc' = [cyc EXCEPT ![t] = [IdleCycle EXCEPT !.pc = "fetch"]]
    /\ caller' = [caller EXCEPT ![c] = "idle"]
    /\ op' = "thread_start" /\ ret' = None
    /\ UNCHANGED <<proxies, failed, idx, is_ready, allow_direct,
                   histVars, engVars>>

(***************************************************************************)
(* _refresh_background: the collection cycle run by thread t               *)
(***************************************************************************)
\* collected[:test_count], the candidates of the first wave
wave1(collected) == Take(collected, Min(FirstWave, Len(collected)))

\* remaining[:50], the candidates of the second wave
wave2(collected, valid) == Take(Without(collected, Elems(valid)), SecondWave)

\* lines 253-292: what the first wave's result makes of the pool
\*   next: the thread's next position; proxies, ready: the pool after it
first_wave_policy(valid, ps, ready, direct) ==
    IF Len(valid) >= AdoptMin
    THEN [next |-> "fill", proxies |-> valid, ready |-> ready]
    ELSE IF Len(valid) >= 1
         THEN [next |-> "validate2", proxies |-> ps, ready |-> ready]
         ELSE [next |-> "finally",
               proxies |-> IF direct THEN <<>> ELSE ps,
               ready |-> TRUE]

\* a variant: only the second wave's proxies are installed
second_wave_only(valid, more_valid) == more_valid

\* line 284: self.proxies = valid + more_valid
second_wave_policy(valid, more_valid) == valid \o more_valid

\* the parallel fetch of the sources ended in time with the
\* de-duplicated list c
CycleFetch(t, c) ==
    /\ cyc[t].pc = "fetch"
    /\ NoDup(c) /\ None \notin Elems(c)
    /\ IF c = <<>>
       THEN /\ is_ready' = TRUE
            /\ cyc' = [cyc EXCEPT ![t].pc = "finally"]
       ELSE /\ is_ready' = is_ready
            /\ cyc' = [cyc EXCEPT ![t].pc = "validate", ![t].collected = c]
    /\ UNCHANGED <<proxies, failed, idx, allow_direct, refreshing,
                   caller, obsVars, histVars, engVars>>

\* the first wave ended in time; v lists the candidates that validated,
\* in the order their tests completed
CycleValidate(t, v) ==
    /\ cyc[t].pc = "validate"
    /\ NoDup(v) /\ Elems(v) \subseteq Elems(wave1(cyc[t].collected))
    /\ LET r == first_wave_policy(v, proxies, is_ready, allow_direct)
       IN  /\ proxies' = r.proxies
           /\ is_ready' = r.ready
           /\ cyc' = [cyc EXCEPT ![t].pc = r.next, ![t].valid = v]
    /\ held' = HeldAfter(held, proxies', failed)
    /\ UNCHANGED <<failed, idx, allow_direct, refreshing,
                   caller, obsVars, track, strikes, streak, engVars>>

\* the second wave ended in time; v lists the candidates that validated
CycleValidate2(t, v) ==
    /\ cyc[t].pc = "validate2"
    /\ NoDup(v) /\ Elems(v) \subseteq Elems(wave2(cyc[t].collected, cyc[t].valid))
    /\ proxies' = second_wave_policy(cyc[t].valid, v)
    /\ cyc' = [cyc EXCEPT ![t].pc = "fill", ![t].more_valid = v]
    /\ held' = HeldAfter(held, proxies', failed)
    /\ UNCHANGED <<failed, idx, is_ready, allow_direct, refreshing,
                   caller, obsVars, track, strikes, streak, engVars>>

\* lines 294-299: the queue is filled and the pool marked ready
CycleReady(t) ==
    /\ cyc[t].pc = "fill"
    /\ is_ready' = TRUE
    /\ cyc' = [cyc EXCEPT ![t].pc = "finally"]
    /\ UNCHANGED <<proxies, failed, idx, allow_direct, refreshing,
                   caller, obsVars, histVars, engVars>>

\* as_completed(..., timeout=...) raises TimeoutError: caught at line 301
CycleTimeout(t) ==
    /\ cyc[t].pc \in {"fetch", "validate", "validate2"}
    /\ cyc' = [cyc EXCEPT ![t].pc = "finally"]
    /\ UNCHANGED <<poolVars, caller, obsVars, histVars, engVars>>

\* a variant: the thread ends without clearing the flag
CycleEndsSilently(t) ==
    /\ cyc[t].pc = "finally"
    /\ cyc' = [cyc EXCEPT ![t] = IdleCycle]
    /\ UNCHANGED <<proxies, failed, idx, is_ready, allow_direct, refreshing,
                   caller, obsVars, histVars, engVars>>

\* finally: self._refreshing = False, and the thread ends
CycleFinally(t) ==
    /\ cyc[t].pc = "finally"
    /\ refreshing' = FALSE
    /\ cyc' = [cyc EXCEPT ![t] = IdleCycle]
    /\ UNCHANGED <<proxies, failed, idx, is_ready, allow_direct,
                   caller, obsVars, histVars, engVars>>

(***************************************************************************)
(* ApiFofaClient.search(query, page): one page fetch of the signed client, *)
(* _make_request being followed attempt by attempt                         *)
(***************************************************************************)
\* no fetch has been made
\*   attempt: the loop variable of _make_request;  request_count: the HTTP
\*   requests made (_rate_limit counts them);  waited: the seconds slept
\*   between attempts;  tried: what each attempt met;  ret: what search
\*   returned
NoFetch == [pc |-> "off", attempt |-> 0, request_count |-> 0, waited |-> 0,
            tried |-> <<>>, ret |-> "pending"]

\* what an attempt can meet and the loop goes on after:
\*   http_status  raise_for_status raised HTTPStatusError (line 203)
\*   json_decode  response.json() raised JSONDecodeError (line 210)
\*   transport    any other exception: timeout, connection error (line 215)
Transient == {"http_status", "json_decode", "transport"}

\* the codes _make_request tests for at lines 173 and 185
BanCodes == {"code_3000", "code_850100"}

\* what an attempt can meet and _make_request returns on:
\*   a ban code;  ok_assets, ok_empty: a body with code 0 or a "data" entry,
\*   the data holding assets or an empty list of them;  ok_nodata: such a
\*   body whose data is empty or missing;  unknown: any other body
Decisive == BanCodes \cup {"ok_assets", "ok_empty", "ok_nodata", "unknown"}

\* lines 173-201: what _make_request returns on a decisive answer
make_request(o) ==
    IF o \in {"ok_assets", "ok_empty", "ok_nodata"} THEN "data" ELSE "None"

\* lines 243-281: what search makes of what _make_request returned
\*   None, a response without data (line 251), or a response with assets
api_search(o) ==
    IF make_request(o) = "None" THEN "None"
    ELSE IF o = "ok_nodata" THEN "response_nodata"
    ELSE "response"

\* lines 203-208: the sleep after an HTTP status error that is not the last
\* attempt's
backoff(o, attempt) ==
    IF o = "http_status" /\ attempt < MaxRetries - 1 THEN (attempt + 1) * 2 ELSE 0

fetchFrame == <<poolVars, caller, cyc, obsVars, histVars,
                mode, cfg_proxy, api_client, web_client,
                total, success, failures, ban_count, pc, retry, via, result,
                page, pages, npass, sa, orch, probe>>

\* search is called: the URL is signed and _make_request entered
FetchCall ==
    /\ fetch.pc = "off"
    /\ fetch' = [NoFetch EXCEPT !.pc = "attempt"]
    /\ UNCHANGED fetchFrame

\* one iteration of the loop of _make_request, the attempt meeting o; on a
\* decisive answer, and after the last attempt, search returns
FetchAttempt(o) ==
    /\ fetch.pc = "attempt"
    /\ fetch.attempt < MaxRetries
    /\ fetch' =
          LET f == [fetch EXCEPT !.request_count = @ + 1,
                                 !.tried = Append(@, o),
                                 !.waited = @ + backoff(o, fetch.attempt)]
          IN  IF o \in Decisive
              THEN [f EXCEPT !.pc = "returned", !.ret = api_search(o)]
              ELSE IF fetch.attempt = MaxRetries - 1
                   THEN [f EXCEPT !.pc = "returned", !.ret = "None"]
                   ELSE [f EXCEPT !.attempt = @ + 1]
    /\ UNCHANGED fetchFrame

(***************************************************************************)
(* ProxyManager._validate_proxy(proxy, timeout): the test of one candidate *)
(***************************************************************************)
\* the web endpoint's answer: status 0 stands for a request that raised;
\* body_marker: 'captcha' is in resp.text.lower(); url_marker: the final
\* URL holds '/captcha'
NoWebProbe == [status |-> 0, body_marker |-> FALSE, url_marker |-> FALSE]

\* no candidate is being tested
NoProbe == [pc |-> "off", api |-> "none", web |-> NoWebProbe, asked |-> 0,
            ret |-> FALSE]

\* what the API endpoint can answer through the candidate: the request
\* raised; a status other than 200; or 200 with a body that is not JSON,
\* is JSON but no object, or is an object with the code and data named
ApiProbes == {"transport_error", "status_other", "not_json", "not_dict",
              "code0_data", "code0_nodata", "code_3000", "code_850100",
              "code_other"}

WebStatus == {0, 200, 301, 302, 403}

WebProbes == [status : WebStatus, body_marker : BOOLEAN, url_marker : BOOLEAN]

\* lines 150-170: the API probe says valid, invalid, or (the request
\* raised) leaves the decision to the web probe
api_probe(a) ==
    IF a = "transport_error" THEN "fallback"
    ELSE IF a = "code0_data" THEN "valid"
    ELSE "invalid"

\* line 180: '/captcha' in resp.url.  resp.url is an httpx.URL, which is not
\* a str and defines none of __contains__, __iter__ and __getitem__: the
\* membership test raises TypeError, whatever the URL is
url_test(w) == "TypeError"

\* lines 173-185: the web probe; an exception ends it with False
web_probe(w) ==
    IF w.status \notin {200, 301, 302} THEN FALSE
    ELSE IF w.body_marker THEN FALSE
    ELSE IF url_test(w) = "TypeError" THEN FALSE
    ELSE url_test(w) = "absent"

probeFrame == <<poolVars, caller, cyc, obsVars, histVars,
                mode, cfg_proxy, api_client, web_client,
                total, success, failures, ban_count, pc, retry, via, result,
                page, pages, npass, sa, orch, fetch>>

\* _validate_proxy is called for a candidate that answers a at the API
\* endpoint and w at the web endpoint
ValidateCall(a, w) ==
    /\ probe.pc = "off"
    /\ probe' = [NoProbe EXCEPT !.pc = "api", !.api = a, !.web = w]
    /\ UNCHANGED probeFrame

\* lines 150-170: the API probe
ValidateApi ==
    /\ probe.pc = "api"
    /\ probe' = IF api_probe(probe.api) = "fallback"
                THEN [probe EXCEPT !.pc = "web"]
                ELSE [probe EXCEPT !.pc = "returned",
                                   !.ret = (api_probe(probe.api) = "valid")]
    /\ UNCHANGED probeFrame

\* lines 173-185: the web probe
ValidateWeb ==
    /\ probe.pc = "web"
    /\ probe' = [probe EXCEPT !.pc = "returned", !.asked = @ + 1,
                              !.ret = web_probe(probe.web)]
    /\ UNCHANGED probeFrame

(***************************************************************************)
(* UnifiedFofaClient: what the clients can give, and the helpers of search *)
(***************************************************************************)
\* two raw assets as the server lists them: one without a link, one with
Asset1 == [link |-> <<>>, host |-> "h1", port |-> "80"]
Asset2 == [link |-> <<"l2">>, host |-> "h2", port |-> ""]

AssetLists == {<<>>, <<Asset1>>, <<Asset2, Asset1>>}

\* _parse_asset_to_result: a link is built from host and port when missing
parse_asset_to_result(a) ==
    IF a.link = <<>> /\ a.host # ""
    THEN [a EXCEPT !.link = IF a.port # "" THEN <<a.host, a.port>> ELSE <<a.host>>]
    ELSE a

\* [self.web_client._parse_asset_to_result(a) for a in assets]
web_results(assets) == [i \in 1..Len(assets) |-> parse_asset_to_result(assets[i])]

\* a variant: the first asset is lost
api_results_short(assets) == [i \in 1..(Len(assets) - 1) |-> assets[i + 1]]

\* ApiFofaClient.search: the assets are taken over field by field
api_results(assets) == [i \in 1..Len(assets) |-> assets[i]]

\* what ApiFofaClient.search gives:
\*   ban_code  the server answered -3000 or 850100 (search returns None)
\*   fail      the retries were used up (search returns None)
\*   ban_msg   a response whose message marks a ban
\*   assets    a response with assets; empty: a response without any
\*   exc_net   an exception whose message holds "timeout" or "connection"
\*   exc_other any other exception
\*   total     api_data.get('total', 0) of a response with assets
ApiFailures ==
    {[kind |-> k, assets |-> <<>>, total |-> 0] :
        k \in {"ban_code", "fail", "ban_msg", "empty", "exc_net", "exc_other"}}

ApiOutcomes ==
    ApiFailures
    \cup {[kind |-> "assets", assets |-> l, total |-> 0] : l \in AssetLists \ {<<>>}}

BanSignals == {"ban_code", "ban_msg"}

\* _is_ban_html: the bodies that count as a ban
WebBans == {"emptybody", "banhtml"}

\* what the anonymous request gives:
\*   noresp      _make_request returned None (the request failed)
\*   emptybody   _make_request returned an empty body
\*   banhtml     a body _is_ban_html classifies as a ban
\*   unparsable  a body _parse_json_response makes nothing of
\*   parsed      a body parsed to a dict whose assets _extract_assets_from_data
\*               finds; data: whether its "data" entry is a dict, is absent,
\*               or is something else (a list, null); total: the "total"
\*               entry of that dict, or Absent
WebFailures ==
    {[kind |-> k, assets |-> <<>>, data |-> "absent", total |-> Absent] :
        k \in {"noresp", "emptybody", "banhtml", "unparsable"}}

WebPayloads ==
    WebFailures
    \cup {[kind |-> "parsed", assets |-> l, data |-> dk, total |-> Absent] :
            l \in AssetLists, dk \in {"dict", "absent", "other"}}

NoPayload == [kind |-> "none", assets |-> <<>>, data |-> "absent", total |-> Absent]

\* web: the answer to the anonymous request of stage 2; web3: of stage 3;
\* signed, anon: the signed fetches and the anonymous requests the page
\* request has issued; total0, success0: self.total and self.success when
\* it was entered
NoPage == [max_retries |-> 0, mode0 |-> "auto", api |-> "none",
           web |-> NoPayload, web3 |-> NoPayload,
           signed |-> 0, anon |-> 0, total0 |-> 0, success0 |-> 0]

\* line 236: data.get('data', {}).get('total', len(results))
web_total(w) ==
    IF w.data = "dict" /\ w.total # Absent THEN w.total ELSE Len(w.assets)

\* the part of the state the helpers of search read and write, with the
\* value they return (ret) and whether they raised IndexError (exc)
Cur == [failed |-> failed, idx |-> idx, cfg |-> cfg_proxy, api |-> api_client,
        web |-> web_client, failures |-> failures, ret |-> None, exc |-> FALSE]

\* self.proxy_manager.get_proxy() called from the engine
pool_get(st) ==
    IF st.exc THEN st
    ELSE LET r == get_proxy(proxies, st.failed, st.idx)
         IN  [st EXCEPT !.failed = r.failed, !.idx = r.idx,
                        !.ret = IF r.ret = IndexError THEN None ELSE r.ret,
                        !.exc = (r.ret = IndexError)]

\* the api_client property: the client is (re)built for the proxy that
\* get_proxy returns now
api_client_property(st) ==
    LET s1 == pool_get(st)
    IN  IF s1.exc THEN s1 ELSE [s1 EXCEPT !.api = s1.ret]

\* the web_client property, likewise
web_client_property(st) ==
    LET s1 == pool_get(st)
    IN  IF s1.exc THEN s1 ELSE [s1 EXCEPT !.web = s1.ret]

\* k successive evaluations of self.web_client
RECURSIVE web_client_times(_, _)
web_client_times(st, k) ==
    IF k = 0 THEN st ELSE web_client_times(web_client_property(st), k - 1)

\* _proxy_failed
proxy_failed(st) ==
    IF st.exc THEN st
    ELSE LET fl == IF st.cfg # None THEN mark_failed(st.failed, st.cfg) ELSE st.failed
             r == get_next_proxy(proxies, fl, st.idx, st.cfg)
             s1 == [st EXCEPT !.failed = fl, !.failures = @ + 1, !.idx = r.idx]
         IN  IF r.ret = IndexError THEN [s1 EXCEPT !.exc = TRUE]
             ELSE IF r.ret # None
                  THEN [s1 EXCEPT !.cfg = r.ret, !.api = NoClient, !.web = NoClient]
                  ELSE s1

\* except Exception: self._proxy_failed()   (line 247-249)
handled(st) == IF st.exc THEN proxy_failed([st EXCEPT !.exc = FALSE]) ELSE st

\* a variant: stage 1 is entered whatever the mode
Stage1Always(m) == TRUE

\* if self.mode in [AccessMode.API, AccessMode.AUTO]
Stage1Enabled(m) == m \in {"api", "auto"}

\* if AccessMode.AUTO == self.mode or self.mode == AccessMode.WEB
Stage2Enabled(m) == m \in {"auto", "web"}

\* no page-iteration pass has been started
NoPass == [pc |-> "off", end_count |-> 0, max_pages |-> 0, threshold |-> 0,
           all_results |-> <<>>, pageno |-> 0, consecutive_failures |-> 0,
           fetched |-> <<>>, quiet |-> TRUE]

\* the orchestrator is not running
NoRun == [pc |-> "off", count |-> 0, use_proxy |-> FALSE, proxy_ready |-> FALSE,
          results |-> <<>>, new_results |-> <<>>, polls |-> 0]

Commit(st) ==
    /\ failed' = st.failed
    /\ idx' = st.idx
    /\ cfg_proxy' = st.cfg
    /\ api_client' = st.api
    /\ web_client' = st.web
    /\ failures' = st.failures

\* search returns None (kind "none") or a response with its assets and
\* its total
Return(kind, assets, n) ==
    /\ pc' = "idle"
    /\ result' = [kind |-> kind, assets |-> assets, total |-> n]

\* search lets an IndexError out: the foreground ends
Raise ==
    /\ pc' = "crashed"
    /\ result' = [kind |-> "raise", assets |-> <<>>, total |-> 0]

(***************************************************************************)
(* UnifiedFofaClient.search(query, page, max_retries), step by step: the   *)
(* foreground can be overtaken by the collection cycle between two steps   *)
(***************************************************************************)
\* what neither search nor its caller touches
callFrame == <<proxies, is_ready, allow_direct, refreshing, caller, cyc,
               obsVars, histVars, fetch, probe>>

\* what no step of search touches
engFrame == <<callFrame, sa, orch>>

\* where search goes on after stage 1
AfterStage1(m) == IF Stage2Enabled(m) THEN "poll" ELSE "stage3"

\* search(query, page, max_retries=mr) is entered
SearchCall(mr) ==
    /\ FgIdle /\ pc = "idle"
    /\ pages' = pages + 1
    /\ page' = [NoPage EXCEPT !.max_retries = mr, !.mode0 = mode,
                              !.total0 = total, !.success0 = success]
    /\ pc' = IF Stage1Enabled(mode) THEN "stage1" ELSE AfterStage1(mode)
    /\ retry' = 0
    /\ via' = None
    /\ result' = [kind |-> "pending", assets |-> <<>>, total |-> 0]
    /\ UNCHANGED <<callFrame, failed, idx, mode, cfg_proxy, api_client, web_client,
                   total, success, failures, ban_count, npass>>

\* a caller of the engine asks for one page
SearchStart(mr) ==
    /\ pages < MaxPages
    /\ SearchCall(mr)
    /\ UNCHANGED <<sa, orch>>

\* lines 155-158: the proxy the pool gave (s1.ret) is assigned if it is not
\* the assigned one
assign_current(s1) ==
    IF ~s1.exc /\ s1.ret # s1.cfg
    THEN [s1 EXCEPT !.cfg = s1.ret, !.api = NoClient]
    ELSE s1

\* line 160: s3 is the state after self.api_client was evaluated; the
\* request goes through the proxy the client was built with, unless the
\* pool raised (caught at line 187)
Stage1Issue(s3) ==
    /\ Commit(s3)
    /\ IF s3.exc
       THEN pc' = AfterStage1(mode) /\ via' = None /\ page' = page
       ELSE /\ pc' = "api_wait" /\ via' = s3.api
            /\ page' = [page EXCEPT !.signed = @ + 1]

\* lines 152-160: the signed request is issued
Stage1Request ==
    /\ pc = "stage1"
    /\ total' = total + 1
    /\ Stage1Issue(api_client_property(assign_current(pool_get(Cur))))
    /\ UNCHANGED <<engFrame, mode, success, ban_count, retry, result,
                   pages, npass>>

\* lines 162-190: what stage 1 makes of the signed client's answer
Stage1Response(out) ==
    /\ pc = "api_wait"
    /\ page' = [page EXCEPT !.api = out.kind]
    /\ via' = None
    /\ IF out.kind = "assets"
       THEN /\ success' = success + 1
            /\ failed' = mark_success(failed, cfg_proxy)
            /\ Return("response", api_results(out.assets), out.total)
            /\ UNCHANGED <<idx, cfg_proxy, api_client, web_client, failures, ban_count>>
       ELSE IF out.kind \in {"ban_msg", "ban_code", "fail"}
       THEN /\ ban_count' = ban_count + 1
            /\ Commit(proxy_failed(Cur))
            /\ pc' = AfterStage1(mode)
            /\ UNCHANGED <<success, result>>
       ELSE IF out.kind = "exc_net"
       THEN LET st == proxy_failed(Cur)
            IN  /\ Commit(st)
                /\ IF st.exc THEN Raise ELSE pc' = AfterStage1(mode) /\ result' = result
                /\ UNCHANGED <<success, ban_count>>
       ELSE /\ pc' = AfterStage1(mode)
            /\ UNCHANGED <<failed, idx, cfg_proxy, api_client, web_client, failures,
                           success, ban_count, result>>
    /\ UNCHANGED <<engFrame, mode, total, retry, pages, npass>>

\* lines 194-205: the mode becomes WEB and the pool is polled for a proxy
Stage2Poll ==
    /\ pc = "poll"
    /\ mode' = "web"
    /\ LET s1 == pool_get(Cur)
       IN  IF s1.exc
           THEN Commit(s1) /\ Raise /\ retry' = retry
           ELSE IF s1.ret # None
           THEN /\ Commit([s1 EXCEPT !.cfg = s1.ret, !.web = NoClient])
                /\ pc' = "stage2_go" /\ retry' = retry /\ result' = result
           ELSE /\ Commit(s1)
                /\ retry' = retry + 1
                /\ pc' = IF retry + 1 = Polls THEN "stage2_go" ELSE "poll"
                /\ result' = result
    /\ UNCHANGED <<engFrame, total, success, ban_count, via, page, pages, npass>>

\* a variant: the page is never refused for want of a proxy
NeverRefused(cfg, direct) == FALSE

\* lines 208-213: no proxy is assigned and direct connection is not allowed
NoProxyRefused(cfg, direct) == cfg = None /\ ~direct

\* line 217: self.web_client is evaluated twice (s1, then s2) and the
\* request goes through the proxy the first client was built with; h is
\* the state after the handler of line 247, should the pool have raised
Stage2Issue(s1, s2, h) ==
    /\ Commit(h)
    /\ IF s2.exc
       THEN /\ via' = via /\ page' = page
            /\ IF h.exc THEN Raise ELSE pc' = "stage3" /\ result' = result
       ELSE /\ pc' = "web_wait" /\ via' = s1.web /\ result' = result
            /\ page' = [page EXCEPT !.anon = @ + 1]

\* lines 208-217: without a proxy the page fails unless direct connection
\* is allowed; otherwise the anonymous request is issued
Stage2Request ==
    /\ pc = "stage2_go"
    /\ IF NoProxyRefused(cfg_proxy, allow_direct)
       THEN /\ Return("none", <<>>, 0)
            /\ UNCHANGED <<failed, idx, cfg_proxy, api_client, web_client, failures,
                           total, via, page>>
       ELSE /\ total' = total + 1
            /\ Stage2Issue(web_client_property(Cur), web_client_times(Cur, 2),
                           handled(web_client_times(Cur, 2)))
    /\ UNCHANGED <<engFrame, mode, success, ban_count, retry, pages, npass>>

\* lines 219-245, the try body of stage 2 on the payload w:
\*   st: the state it leaves (st.exc: an exception is on its way to line 247)
\*   ban, succ: the counters after it;  ret: it reached the return of line 238
stage2_body(w) ==
    IF w.kind \in {"noresp", "emptybody"}
    THEN [st |-> proxy_failed(Cur), ban |-> ban_count, succ |-> success, ret |-> FALSE]
    ELSE IF w.kind = "banhtml"
    THEN [st |-> proxy_failed(Cur), ban |-> ban_count + 1, succ |-> success, ret |-> FALSE]
    ELSE IF w.kind = "unparsable"
    THEN [st |-> web_client_property(Cur), ban |-> ban_count, succ |-> success, ret |-> FALSE]
    ELSE LET s1 == web_client_times(Cur, 2 + Len(w.assets))
         IN  IF s1.exc \/ w.assets = <<>>
             THEN [st |-> s1, ban |-> ban_count, succ |-> success, ret |-> FALSE]
             ELSE LET s2 == [s1 EXCEPT !.failed = mark_success(s1.failed, s1.cfg)]
                  IN  \* line 236: data.get('data', {}).get(...) on a non-dict
                      IF w.data = "other"
                      THEN [st |-> [s2 EXCEPT !.exc = TRUE], ban |-> ban_count,
                            succ |-> success + 1, ret |-> FALSE]
                      ELSE [st |-> s2, ban |-> ban_count,
                            succ |-> success + 1, ret |-> TRUE]

\* lines 219-249: what stage 2 makes of the anonymous request's answer
Stage2Response(w) ==
    /\ pc = "web_wait"
    /\ page' = [page EXCEPT !.web = w]
    /\ via' = None
    /\ LET b == stage2_body(w)
           h == handled(b.st)
       IN  /\ Commit(h)
           /\ ban_count' = b.ban
           /\ success' = b.succ
           /\ IF h.exc THEN Raise
              ELSE IF b.ret THEN Return("response", web_results(w.assets), web_total(w))
              ELSE pc' = "stage3" /\ result' = result
    /\ UNCHANGED <<engFrame, mode, total, retry, pages, npass>>

\* lines 257-259: the proxy the pool gave (s1.ret) is assigned and both
\* clients are dropped
reassign(s1) == [s1 EXCEPT !.cfg = s1.ret, !.api = NoClient, !.web = NoClient]

\* lines 254-264: s1 is the state after the pool was asked; when it gave
\* a proxy other than the assigned one, self.web_client is evaluated twice
\* (w1, then w2) and the request goes through the proxy the first client
\* was built with
Stage3Retry(s1, w1, w2) ==
    IF s1.exc
    THEN Commit(s1) /\ Raise /\ UNCHANGED <<mode, total, via, page>>
    ELSE IF s1.ret # None /\ s1.ret # s1.cfg
    THEN /\ mode' = "web"
         /\ total' = total + 1
         /\ Commit(w2)
         /\ IF w2.exc
            THEN Return("none", <<>>, 0) /\ via' = via /\ page' = page
            ELSE /\ pc' = "retry_wait" /\ via' = w1.web /\ result' = result
                 /\ page' = [page EXCEPT !.anon = @ + 1]
    ELSE /\ Commit(s1)
         /\ Return("none", <<>>, 0)
         /\ UNCHANGED <<mode, total, via, page>>

\* lines 253-264: one more anonymous request through another proxy
Stage3 ==
    /\ pc = "stage3"
    /\ IF page.max_retries > 1
       THEN Stage3Retry(pool_get(Cur),
                        web_client_property(reassign(pool_get(Cur))),
                        web_client_times(reassign(pool_get(Cur)), 2))
       ELSE /\ Return("none", <<>>, 0)
            /\ UNCHANGED <<failed, idx, cfg_proxy, api_client, web_client, failures,
                           mode, total, via, page>>
    /\ UNCHANGED <<engFrame, success, ban_count, retry, pages, npass>>

\* lines 265-287: what stage 3 makes of the answer
Stage3Response(w) ==
    /\ pc = "retry_wait"
    /\ page' = [page EXCEPT !.web3 = w]
    /\ via' = None
    /\ IF w.kind \in {"noresp", "emptybody", "banhtml"}
       THEN /\ Return("none", <<>>, 0)
            /\ UNCHANGED <<failed, idx, cfg_proxy, api_client, web_client, failures, success>>
       ELSE LET n == IF w.kind = "parsed" THEN 2 + Len(w.assets) ELSE 1
                s1 == web_client_times(Cur, n)
            IN  IF s1.exc \/ w.assets = <<>>
                THEN Commit(s1) /\ Return("none", <<>>, 0) /\ success' = success
                ELSE /\ Commit([s1 EXCEPT !.failed = mark_success(s1.failed, s1.cfg)])
                     /\ success' = success + 1
                     /\ Return("response", web_results(w.assets), Len(w.assets))
    /\ UNCHANGED <<engFrame, mode, total, ban_count, retry, pages, npass>>

\* fofa.py 236-239: client.total = 0, ..., client.ban_count = 0
reset_counters ==
    /\ npass' = 2
    /\ total' = 0 /\ success' = 0 /\ failures' = 0 /\ ban_count' = 0

\* the counters are zeroed before the second pass
ResetCounters ==
    /\ FgIdle /\ pc = "idle"
    /\ npass = 1 /\ pages > 0
    /\ reset_counters
    /\ UNCHANGED <<engFrame, failed, idx, mode, cfg_proxy, api_client, web_client,
                   pc, retry, via, result, page, pages>>

\* search_all, line 321: after a failed page the pool is asked for a proxy
PageFailedProbe ==
    /\ pc = "idle" /\ pages > 0 /\ result.kind = "none"
    /\ GetProxy

(***************************************************************************)
(* UnifiedFofaClient.search_all(query, max_pages, max_consecutive_failures)*)
(***************************************************************************)
\* the engine's variables
engState == <<failed, idx, mode, cfg_proxy, api_client, web_client,
              total, success, failures, ban_count, pc, retry, via, result,
              page, pages, npass>>

\* int(r.get("port", 0)) if r.get("port") else 0
port_number(p) == IF p = "80" THEN 80 ELSE 0

\* lines 345-359: the SearchResult made of one asset of the response
search_result(r) == [link |-> r.link, host |-> r.host, port |-> port_number(r.port)]

search_results(assets) == [i \in 1..Len(assets) |-> search_result(assets[i])]

\* a variant: nothing is cut off
keep_all(rs, n) == rs

\* all_results[:self.config.end_count]
truncate(rs, n) == IF n <= 0 THEN <<>> ELSE Take(rs, n)

\* lines 307-309: the pass starts with an empty list at page 1
\*   fetched: the results of the successful pages so far, in page order
\*   quiet:   every page so far got empty assets from each client it asked
NewPass(n, mp, th) ==
    [pc |-> "loop", end_count |-> n, max_pages |-> mp, threshold |-> th,
     all_results |-> <<>>, pageno |-> 1, consecutive_failures |-> 0,
     fetched |-> <<>>, quiet |-> TRUE]

\* the payload is a parsed body without assets
EmptyAssets(w) == w.kind = "parsed" /\ w.assets = <<>>

\* the page request just made got empty assets from the signed client, if
\* it was asked, and from the anonymous client in stage 2 and, if stage 3
\* asked again, in stage 3
QuietPage ==
    /\ page.api = (IF page.mode0 = "web" THEN "none" ELSE "empty")
    /\ EmptyAssets(page.web)
    /\ page.web3.kind = "none" \/ EmptyAssets(page.web3)

\* a variant: a failed page is asked for again
after_failure_retrying(s, r, direct) ==
    LET cf == s.consecutive_failures + 1
        s1 == [s EXCEPT !.consecutive_failures = cf]
    IN  IF r = IndexError THEN [s1 EXCEPT !.pc = "crashed"]
        ELSE IF r = None /\ ~direct THEN [s1 EXCEPT !.pc = "done"]
        ELSE IF cf >= s.threshold THEN [s1 EXCEPT !.pc = "done"]
        ELSE [s1 EXCEPT !.pc = "loop"]

\* lines 316-331: the pass after a page that failed, r being what the probe
\* of the pool (line 321) gave
after_failure(s, r, direct) ==
    LET cf == s.consecutive_failures + 1
        s1 == [s EXCEPT !.consecutive_failures = cf]
    IN  IF r = IndexError THEN [s1 EXCEPT !.pc = "crashed"]
        ELSE IF r = None /\ ~direct THEN [s1 EXCEPT !.pc = "done"]
        ELSE IF cf >= s.threshold THEN [s1 EXCEPT !.pc = "done"]
        ELSE [s1 EXCEPT !.pc = "loop", !.pageno = @ + 1]

\* lines 333-377: the pass after a page that returned the response resp
after_success(s, resp) ==
    LET got == s.all_results \o search_results(resp.assets)
        s1 == [s EXCEPT !.consecutive_failures = 0, !.all_results = got]
    IN  IF Len(got) >= s.end_count
        THEN [s1 EXCEPT !.all_results = truncate(got, s.end_count), !.pc = "done"]
        ELSE IF resp.total > 0 /\ Len(got) >= resp.total
        THEN [s1 EXCEPT !.pc = "done"]
        ELSE [s1 EXCEPT !.pc = "loop", !.pageno = @ + 1]

\* line 311: the loop's test, and the call of search for the next page
SearchAllLoop ==
    /\ sa.pc = "loop"
    /\ IF Len(sa.all_results) < sa.end_count /\ sa.pageno <= sa.max_pages
       THEN /\ SearchCall(3)
            /\ sa' = [sa EXCEPT !.pc = "search"]
       ELSE /\ sa' = [sa EXCEPT !.pc = "done"]
            /\ UNCHANGED <<callFrame, engState>>
    /\ UNCHANGED orch

\* lines 316-377: search has returned (or raised) and the pass goes on
SearchAllAfter ==
    /\ sa.pc = "search"
    /\ pc \in {"idle", "crashed"}
    /\ IF pc = "crashed"
       THEN /\ sa' = [sa EXCEPT !.pc = "crashed", !.quiet = @ /\ QuietPage]
            /\ UNCHANGED <<failed, idx>>
       ELSE IF result.kind = "none"
       THEN LET r == get_proxy(proxies, failed, idx)
            IN  /\ failed' = r.failed
                /\ idx' = r.idx
                /\ sa' = [after_failure(sa, r.ret, allow_direct)
                            EXCEPT !.quiet = @ /\ QuietPage]
       ELSE /\ sa' = [after_success(sa, result)
                        EXCEPT !.fetched = @ \o search_results(result.assets),
                               !.quiet = FALSE]
            /\ UNCHANGED <<failed, idx>>
    /\ UNCHANGED <<callFrame, mode, cfg_proxy, api_client, web_client,
                   total, success, failures, ban_count, pc, retry, via, result,
                   page, pages, npass, orch>>

(***************************************************************************)
(* fofa.py search(query, count, output, use_proxy): the orchestrator       *)
(***************************************************************************)
\* a variant: the second pass's result is kept when it is as long
keep_not_shorter(new, old) == IF Len(new) >= Len(old) THEN new ELSE old

\* lines 242-243: if len(new_results) > len(results): results = new_results
keep_better(new, old) == IF Len(new) > Len(old) THEN new ELSE old

\* line 206: the first pass under-delivered and the pool was not ready
NeedsWait(rs, n, use, ready) == Len(rs) < Min(n, UnderDelivery) /\ use /\ ~ready

\* lines 190-198: the client is built and the first pass started
NewRun(n, use) ==
    [pc |-> "pass1", count |-> n, use_proxy |-> use, proxy_ready |-> FALSE,
     results |-> <<>>, new_results |-> <<>>, polls |-> 0]

orchFrame == <<callFrame, failed, idx, mode, cfg_proxy, api_client, web_client,
               pc, retry, via, result, page, pages>>

\* lines 198-206: the first pass has returned
OrchAfterPass1 ==
    /\ orch.pc = "pass1" /\ sa.pc = "done"
    /\ orch' = [orch EXCEPT
                  !.results = sa.all_results,
                  !.proxy_ready = is_ready,
                  !.pc = IF NeedsWait(sa.all_results, orch.count, orch.use_proxy, is_ready)
                         THEN "wait" ELSE "done"]
    /\ UNCHANGED <<orchFrame, sa, total, success, failures, ban_count, npass>>

\* a variant: the wait starts over after 15 tests, until the pool is ready
OrchPollUnbounded ==
    /\ orch.pc = "wait"
    /\ orch' = [orch EXCEPT
                  !.polls = (@ + 1) % ReadyPolls,
                  !.pc = IF is_ready /\ Len(proxies) > 0 THEN "check" ELSE "wait"]
    /\ UNCHANGED <<orchFrame, sa, total, success, failures, ban_count, npass>>

\* lines 211-214 / 221-224: one test of the pool's readiness
OrchPoll ==
    /\ orch.pc = "wait"
    /\ orch' = [orch EXCEPT
                  !.polls = @ + 1,
                  !.pc = IF (is_ready /\ Len(proxies) > 0) \/ orch.polls + 1 = ReadyPolls
                         THEN "check" ELSE "wait"]
    /\ UNCHANGED <<orchFrame, sa, total, success, failures, ban_count, npass>>

\* lines 227-241: the second pass is started if the pool is ready with at
\* least 3 proxies
OrchCheck ==
    /\ orch.pc = "check"
    /\ IF is_ready /\ Len(proxies) >= MinPool
       THEN /\ reset_counters
            /\ sa' = NewPass(orch.count, OrchMaxPages, DefaultThreshold)
            /\ orch' = [orch EXCEPT !.pc = "pass2"]
       ELSE /\ orch' = [orch EXCEPT !.pc = "done"]
            /\ UNCHANGED <<sa, total, success, failures, ban_count, npass>>
    /\ UNCHANGED orchFrame

\* lines 241-252: the second pass has returned
OrchAfterPass2 ==
    /\ orch.pc = "pass2" /\ sa.pc = "done"
    /\ orch' = [orch EXCEPT
                  !.new_results = sa.all_results,
                  !.results = keep_better(sa.all_results, @),
                  !.pc = "done"]
    /\ UNCHANGED <<orchFrame, sa, total, success, failures, ban_count, npass>>

(***************************************************************************)
(* SpecPool: one foreground thread using the pool's interface while the    *)
(* collection cycles it launched run in the background                     *)
(***************************************************************************)
Slots == 1..MaxCycles

\* what the sources deliver, and what validates, in the small
\* specifications: nothing, or one proxy
SmallLists == {<<>>} \cup {<<p>> : p \in Proxy}

InitManager ==
    /\ proxies = <<>>
    /\ failed = EmptyDict
    /\ idx = 0
    /\ is_ready = FALSE
    /\ allow_direct \in BOOLEAN
    /\ refreshing = FALSE
    /\ cyc = [t \in Slots |-> IdleCycle]
    /\ op = "init" /\ ret = None
    /\ strikes = [p \in Proxy |-> 0]
    /\ streak = [p \in Proxy |-> 0]
    /\ held = {}

\* UnifiedFofaClient.__init__, lines 39 and 51-57
InitEngine ==
    /\ mode = "auto"
    /\ cfg_proxy = None
    /\ api_client = NoClient
    /\ web_client = NoClient
    /\ total = 0 /\ success = 0 /\ failures = 0 /\ ban_count = 0
    /\ pc = "idle"
    /\ retry = 0
    /\ via = None
    /\ result = [kind |-> "none", assets |-> <<>>, total |-> 0]
    /\ page = NoPage
    /\ pages = 0
    /\ npass = 1
    /\ fetch = NoFetch
    /\ probe = NoProbe

\* neither search_all nor the orchestrator is running
NoCaller == sa = NoPass /\ orch = NoRun

InitPool ==
    /\ InitManager
    /\ InitEngine
    /\ NoCaller
    /\ caller = [c \in {1} |-> "idle"]
    /\ track = FALSE

CycleSmall(t) ==
    \/ \E c \in SmallLists : CycleFetch(t, c)
    \/ \E v \in SmallLists : CycleValidate(t, v)
    \/ \E v \in SmallLists : CycleValidate2(t, v)
    \/ CycleReady(t)
    \/ CycleTimeout(t)
    \/ CycleFinally(t)

NextPool ==
    \/ \E p \in Proxy \cup {None} : AddProxy(p)
    \/ GetProxy
    \/ \E x \in Proxy \cup {None} : GetNextProxy(x)
    \/ \E p \in Proxy : MarkFailed(p)
    \/ \E p \in Proxy : MarkSuccess(p)
    \/ AutoRefreshCheck(1)
    \/ AutoRefreshStart(1)
    \/ \E t \in Slots : CycleSmall(t)

SpecPool == InitPool /\ [][NextPool]_vars

\* the same, with the history of mark_failed calls recorded
InitRetire ==
    /\ InitManager
    /\ InitEngine
    /\ NoCaller
    /\ caller = [c \in {1} |-> "idle"]
    /\ track = TRUE

SpecRetire == InitRetire /\ [][NextPool]_vars

(***************************************************************************)
(* SpecRotate: the rotation over a pool of up to three proxies, while the  *)
(* collection cycle swaps in what it validated                             *)
(***************************************************************************)
\* the proxies the foreground names in this specification
Three == 1..(NProxy + 1)

NextRotate ==
    \/ \E p \in Three : AddProxy(p)
    \/ \E x \in Three \cup {None} : GetNextProxy(x)
    \/ \E p \in Three : MarkFailed(p)
    \/ AutoRefreshCheck(1)
    \/ AutoRefreshStart(1)
    \/ \E t \in Slots : CycleSmall(t)

SpecRotate == InitPool /\ [][NextRotate]_vars

(***************************************************************************)
(* SpecRace: a second thread calls auto_refresh while the foreground uses  *)
(* the pool                                                                *)
(***************************************************************************)
Callers == {1, 2}

InitRace ==
    /\ InitManager
    /\ InitEngine
    /\ NoCaller
    /\ caller = [c \in Callers |-> "idle"]
    /\ track = FALSE

NextRace ==
    \/ \E p \in Proxy : AddProxy(p)
    \/ GetProxy
    \/ \E c \in Callers : AutoRefreshCheck(c)
    \/ \E c \in Callers : AutoRefreshStart(c)
    \/ \E t \in Slots : CycleSmall(t)

SpecRace == InitRace /\ [][NextRace]_vars

\* the collection cycles in flight
InFlight == {t \in Slots : Running(t)}

(***************************************************************************)
(* SpecCycle: collection cycles over candidate lists long enough for both  *)
(* validation waves, while the foreground adds proxies by hand             *)
(***************************************************************************)
\* the candidate lists the sources deliver: <<1, ..., n>>
CandLists ==
    {SubSeq([i \in 1..MaxCand |-> i], 1, n) :
        n \in {0, AdoptMin - 1, FirstWave + AdoptMin, MaxCand}}

\* the last n elements of s
Last(s, n) == SubSeq(s, Len(s) - Min(n, Len(s)) + 1, Len(s))

\* the results a validation wave over the candidates w can have: none,
\* some or all of the first ones, some of the last ones
Outcomes(w) ==
    {Take(w, n) : n \in {0, 1, AdoptMin - 1, AdoptMin, Len(w)}}
        \cup {Last(w, n) : n \in {1, AdoptMin - 1}}

CycleLarge(t) ==
    \/ \E c \in CandLists : CycleFetch(t, c)
    \/ \E v \in Outcomes(wave1(cyc[t].collected)) : CycleValidate(t, v)
    \/ \E v \in Outcomes(wave2(cyc[t].collected, cyc[t].valid)) : CycleValidate2(t, v)
    \/ CycleReady(t)
    \/ CycleTimeout(t)
    \/ CycleFinally(t)

NextCycle ==
    \/ \E p \in Proxy : AddProxy(p)
    \/ AutoRefreshCheck(1)
    \/ AutoRefreshStart(1)
    \/ \E t \in Slots : CycleLarge(t)

SpecCycle == InitPool /\ [][NextCycle]_vars

(***************************************************************************)
(* SpecLive: the collection cycles under the scheduler's fairness: a       *)
(* cycle thread that can take a step eventually takes one                  *)
(***************************************************************************)
NextLive ==
    \/ \E p \in Proxy : AddProxy(p)
    \/ AutoRefreshCheck(1)
    \/ AutoRefreshStart(1)
    \/ \E t \in Slots : CycleSmall(t)

SpecLive ==
    InitPool /\ [][NextLive]_vars /\ \A t \in Slots : WF_vars(CycleSmall(t))

(***************************************************************************)
(* SpecProbe: the validation of one candidate                              *)
(***************************************************************************)
NextProbe ==
    \/ \E a \in ApiProbes, w \in WebProbes : ValidateCall(a, w)
    \/ ValidateApi
    \/ ValidateWeb

SpecProbe == InitPool /\ [][NextProbe]_vars

(***************************************************************************)
(* SpecFetch: one page fetch of the signed client                          *)
(***************************************************************************)
NextFetch ==
    \/ FetchCall
    \/ \E o \in Transient \cup Decisive : FetchAttempt(o)

SpecFetch == InitPool /\ [][NextFetch]_vars

(***************************************************************************)
(* SpecEngine: a session of page requests, with the collection cycle that  *)
(* the constructor may have launched running in the background             *)
(***************************************************************************)
\* UnifiedFofaClient(config, proxies, auto_refresh_proxy): the proxies given
\* are added to the pool, and a collection cycle is launched if asked for
InitClient ==
    /\ proxies \in {<<>>, <<1>>, <<1, 2>>}
    /\ failed = EmptyDict
    /\ idx = 0
    /\ is_ready = FALSE
    /\ allow_direct \in BOOLEAN
    /\ refreshing \in BOOLEAN
    /\ cyc = [t \in Slots |-> IF refreshing /\ t = 1
                              THEN [IdleCycle EXCEPT !.pc = "fetch"]
                              ELSE IdleCycle]
    /\ caller = [c \in {1} |-> "idle"]
    /\ op = "init" /\ ret = None
    /\ track = FALSE
    /\ strikes = [p \in Proxy |-> 0]
    /\ streak = [p \in Proxy |-> 0]
    /\ held = {}
    /\ InitEngine

InitSession == InitClient /\ NoCaller

NextEngine ==
    \/ \E mr \in {1, 3} : SearchStart(mr)
    \/ Stage1Request
    \/ \E out \in ApiOutcomes : Stage1Response(out)
    \/ Stage2Poll
    \/ Stage2Request
    \/ \E w \in WebPayloads : Stage2Response(w)
    \/ Stage3
    \/ \E w \in WebPayloads : Stage3Response(w)
    \/ ResetCounters
    \/ PageFailedProbe
    \/ \E t \in Slots : CycleSmall(t)

SpecEngine == InitSession /\ [][NextEngine]_vars

(***************************************************************************)
(* SpecAll: one page-iteration pass, search_all(query, mp, th) with target *)
(* count n, while the collection cycle runs in the background              *)
(***************************************************************************)
\* what the signed client gives to a pass
ApiPages ==
    {[kind |-> k, assets |-> <<>>, total |-> 0] : k \in {"ban_code", "empty"}}
    \cup {[kind |-> "assets", assets |-> <<Asset1>>, total |-> ManyResults],
          [kind |-> "assets", assets |-> <<Asset2, Asset1>>, total |-> 2]}

\* what the anonymous client gives to a pass
WebPages ==
    {[kind |-> "banhtml", assets |-> <<>>, data |-> "absent", total |-> Absent],
     [kind |-> "parsed", assets |-> <<>>, data |-> "dict", total |-> Absent],
     [kind |-> "parsed", assets |-> <<Asset1>>, data |-> "dict", total |-> Absent],
     [kind |-> "parsed", assets |-> <<Asset2, Asset1>>, data |-> "dict",
      total |-> ManyResults]}

\* the passes: (target count, page limit, failure threshold)
PassSettings ==
    {<<MaxTarget, MaxLimit, DefaultThreshold>>,
     <<MaxTarget, MaxLimit - 2, DefaultThreshold>>,
     <<1, MaxLimit, DefaultThreshold - 1>>}

InitAll ==
    /\ InitClient
    /\ sa \in {NewPass(x[1], x[2], x[3]) : x \in PassSettings}
    /\ orch = NoRun

SearchSteps(A, W) ==
    \/ Stage1Request
    \/ \E out \in A : Stage1Response(out)
    \/ Stage2Poll
    \/ Stage2Request
    \/ \E w \in W : Stage2Response(w)
    \/ Stage3
    \/ \E w \in W : Stage3Response(w)

NextAll ==
    \/ SearchAllLoop
    \/ SearchAllAfter
    \/ SearchSteps(ApiPages, WebPages)
    \/ \E t \in Slots : CycleSmall(t)

SpecAll == InitAll /\ [][NextAll]_vars

(***************************************************************************)
(* SpecOrch: the orchestrator's run, from the construction of the client   *)
(* (an empty pool, direct connection allowed, a collection cycle launched  *)
(* if use_proxy) to the final result                                       *)
(***************************************************************************)
\* ten assets in one page
TenAssets == [i \in 1..UnderDelivery |-> Asset1]

\* what the signed client gives to a run
ApiRuns ==
    {[kind |-> "fail", assets |-> <<>>, total |-> 0],
     [kind |-> "assets", assets |-> <<Asset1>>, total |-> 1],
     [kind |-> "assets", assets |-> TenAssets, total |-> UnderDelivery]}

\* what the anonymous client gives to a run
WebRuns ==
    {[kind |-> "noresp", assets |-> <<>>, data |-> "absent", total |-> Absent],
     [kind |-> "parsed", assets |-> <<Asset1>>, data |-> "absent", total |-> Absent],
     [kind |-> "parsed", assets |-> <<Asset2, Asset1>>, data |-> "absent",
      total |-> Absent]}

\* what the sources deliver, and what validates, in a run
RunLists == {<<>>, <<1>>, <<2, 3>>, <<1, 2, 3>>}

\* the target counts of a run
RunCounts == {2, UnderDelivery + MaxTarget}

InitOrch ==
    /\ proxies = <<>>
    /\ failed = EmptyDict
    /\ idx = 0
    /\ is_ready = FALSE
    /\ allow_direct = TRUE
    /\ orch \in {NewRun(n, use) : n \in RunCounts, use \in BOOLEAN}
    /\ sa = NewPass(orch.count, OrchMaxPages, DefaultThreshold)
    /\ refreshing = orch.use_proxy
    /\ cyc = [t \in Slots |-> IF refreshing /\ t = 1
                              THEN [IdleCycle EXCEPT !.pc = "fetch"]
                              ELSE IdleCycle]
    /\ caller = [c \in {1} |-> "idle"]
    /\ op = "init" /\ ret = None
    /\ track = FALSE
    /\ strikes = [p \in Proxy |-> 0]
    /\ streak = [p \in Proxy |-> 0]
    /\ held = {}
    /\ InitEngine

CycleRun(t) ==
    \/ \E c \in RunLists : CycleFetch(t, c)
    \/ \E v \in RunLists : CycleValidate(t, v)
    \/ \E v \in RunLists : CycleValidate2(t, v)
    \/ CycleReady(t)
    \/ CycleTimeout(t)
    \/ CycleFinally(t)

NextOrch ==
    \/ OrchAfterPass1
    \/ OrchPoll
    \/ OrchCheck
    \/ OrchAfterPass2
    \/ SearchAllLoop
    \/ SearchAllAfter
    \/ SearchSteps(ApiRuns, WebRuns)
    \/ \E t \in Slots : CycleRun(t)

SpecOrch == InitOrch /\ [][NextOrch]_vars

(***************************************************************************)
(* SpecWait: the orchestrator's run with use_proxy, the foreground thread  *)
(* being scheduled fairly (every request it issues is answered or times    *)
(* out) while nothing is assumed of the collection cycle, which may stay   *)
(* in any of its steps for ever                                            *)
(***************************************************************************)
\* what the signed client gives while the foreground waits for the pool
ApiWaits ==
    {[kind |-> "fail", assets |-> <<>>, total |-> 0],
     [kind |-> "assets", assets |-> <<Asset1>>, total |-> 1]}

\* what the anonymous client gives while the foreground waits for the pool
WebWaits ==
    {[kind |-> "noresp", assets |-> <<>>, data |-> "absent", total |-> Absent],
     [kind |-> "parsed", assets |-> <<Asset1>>, data |-> "absent", total |-> Absent]}

InitWait == InitOrch /\ orch.use_proxy /\ orch.count = 2

\* the steps of the foreground thread
Foreground ==
    \/ OrchAfterPass1
    \/ OrchPoll
    \/ OrchCheck
    \/ OrchAfterPass2
    \/ SearchAllLoop
    \/ SearchAllAfter
    \/ SearchSteps(ApiWaits, WebWaits)

NextWait ==
    \/ Foreground
    \/ \E t \in Slots : CycleRun(t)

\* the positions of the foreground inside search
Positions ==
    {"idle", "stage1", "api_wait", "poll", "stage2_go", "web_wait", "stage3",
     "retry_wait", "crashed"}

\* the foreground thread has a step to take: it is inside a page request,
\* or search_all or the orchestrator has something to do next
FgPending ==
    \/ pc \in Positions \ {"idle", "crashed"}
    \/ sa.pc = "search" /\ pc \in {"idle", "crashed"}
    \/ sa.pc = "loop" /\ pc = "idle"
    \/ orch.pc \in {"pass1", "pass2"} /\ sa.pc = "done"
    \/ orch.pc \in {"wait", "check"}

\* where the foreground thread is: its position in search, in search_all
\* and in the orchestrator, with their loop counters
fgVars == <<pc, retry, sa, orch>>

\* the foreground thread takes a step.  Every step of Foreground changes
\* fgVars and no step of a collection cycle does, and Foreground is
\* enabled exactly when FgPending holds, so that <<FgMoves>>_fgVars is a
\* step of Foreground; it is written so that its ENABLED is decided on the
\* first disjunct, without an evaluation of the pool's operators.
FgMoves ==
    /\ FgPending
    /\ \/ UNCHANGED <<retry, sa, orch>> /\ pc' \in Positions \ {pc}
       \/ pc' \in Positions /\ <<retry, sa, orch>>' # <<retry, sa, orch>>

\* the foreground thread is scheduled fairly; the collection cycle is not
SpecWait == InitWait /\ [][NextWait]_vars /\ WF_fgVars(FgMoves)

(***************************************************************************)
(* Properties of the engine                                                *)
(***************************************************************************)
\* C1: once the mode is WEB it stays WEB, through every later page request
\* and through the reset of the counters before the second pass, and while
\* the mode is WEB no page request enters stage 1 or has a signed request
\* in flight.
C1_WebModeIsFinal ==
    [][mode = "web" => (mode' = "web" /\ pc' \notin {"stage1", "api_wait"})]_vars

\* C1 happens: in the second pass, after the reset of the counters, a page
\* request that started in WEB mode has its anonymous request in flight.
C1_Witness ==
    /\ npass = 2
    /\ page.mode0 = "web"
    /\ mode = "web"
    /\ pc = "web_wait"

\* C2: when a page request that started in AUTO mode got a ban signal from
\* the signed client and then a payload with n >= 1 assets from the
\* anonymous request of stage 2, it returns a response with exactly those
\* n assets, in their order, and the mode is WEB.
C2_FallbackReturnsAssets ==
    (/\ pc \in {"idle", "crashed"}
     /\ pages > 0
     /\ page.mode0 = "auto"
     /\ page.api \in BanSignals
     /\ page.web.kind = "parsed"
     /\ page.web.assets # <<>>)
        => (/\ result.kind = "response"
            /\ result.assets = web_results(page.web.assets)
            /\ mode = "web")

\* C12: when the signed client answers stage 1 with a non-empty list of
\* assets, the page request counts one success, lowers the failure count of
\* the current proxy by one (not below 0) and touches no other count,
\* returns a response with those assets at once, has issued no anonymous
\* request (none is recorded for the page and the attempt counter stands
\* still) and leaves the mode as it was.
C12_ApiSuccessReturns ==
    [][\A out \in ApiOutcomes :
         (Stage1Response(out) /\ out.kind = "assets")
            => /\ success' = success + 1
               /\ \A p \in Elems(proxies) \cup {cfg_proxy} :
                     Get(failed', p) =
                        IF p = cfg_proxy /\ Get(failed, p) > 0
                        THEN Get(failed, p) - 1 ELSE Get(failed, p)
               /\ pc' = "idle"
               /\ result'.kind = "response"
               /\ Len(result'.assets) = Len(out.assets)
               /\ \A i \in 1..Len(out.assets) :
                     result'.assets[i].host = out.assets[i].host
               /\ page'.web.kind = "none"
               /\ total' = total
               /\ mode' = mode /\ mode' = page.mode0]_vars

\* C12 happens: a page request that started in AUTO mode has just returned
\* the two assets the signed client gave through the current proxy.
C12_Witness ==
    /\ pc = "idle"
    /\ page.api = "assets"
    /\ page.mode0 = "auto"
    /\ result.kind = "response"
    /\ Len(result.assets) = 2
    /\ success > 0
    /\ cfg_proxy # None

C14_BanRotates ==
    [][LET Counted == ban_count' = ban_count + 1
           Rotated == /\ failures' = failures + 1
                      /\ cfg_proxy # None
                            => Get(failed', cfg_proxy) = Get(failed, cfg_proxy) + 1
       IN  /\ \A out \in ApiOutcomes :
                 (Stage1Response(out) /\ out.kind \in BanSignals)
                    => (Counted /\ Rotated)
           /\ \A w \in WebPayloads :
                 (Stage2Response(w) /\ w.kind \in WebBans) => (Counted /\ Rotated)
           /\ \A w \in WebPayloads :
                 (Stage3Response(w) /\ w.kind \in WebBans) => (Counted /\ Rotated)]_vars

\* C33: a candidate is classified valid exactly when the API probe answers
\* 200 with code 0 and non-empty data, or the API probe's request raises
\* and the web probe answers with status 200, 301 or 302 and neither its
\* body nor its final URL carries the CAPTCHA marker; whatever else the API
\* probe answers makes the candidate invalid without a web probe.
C33_ValidExactlyWhen ==
    probe.pc = "returned" =>
       /\ probe.ret <=>
             \/ probe.api = "code0_data"
             \/ /\ probe.api = "transport_error"
                /\ probe.web.status \in {200, 301, 302}
                /\ ~probe.web.body_marker
                /\ ~probe.web.url_marker
       /\ probe.api # "transport_error" => probe.asked = 0
       /\ probe.asked <= 1

\* C23: the signed client makes at most 3 HTTP attempts per page fetch, a
\* further attempt following only a transient failure (HTTP status,
\* decoding, transport); a fetch that ends on code -3000 or 850100 returns
\* something other than what a generic failure (attempts used up, or an
\* unrecognised answer) returns, which is None.
C23_BanSignalIsDistinct ==
    /\ fetch.request_count <= MaxRetries
    /\ \A i \in 1..(Len(fetch.tried) - 1) : fetch.tried[i] \in Transient
    /\ fetch.pc = "returned" =>
          LET last == fetch.tried[Len(fetch.tried)]
          IN  /\ last \in Transient \cup {"unknown"} => fetch.ret = "None"
              /\ last \in BanCodes => fetch.ret # "None"

\* C24: a valid response without assets is not an error.  When the signed
\* client answers stage 1 with a response without assets, or the anonymous
\* request of stage 2 or of stage 3 is answered by a body that parses to
\* zero assets, no proxy gets a failure more, the failure and ban counters
\* stand still and the assigned proxy stays; after stage 1 the page request
\* goes on to the WEB stage.
C24_EmptyIsNotAnError ==
    [][LET NoError == /\ \A p \in Proxy : Get(failed', p) <= Get(failed, p)
                      /\ failures' = failures
                      /\ ban_count' = ban_count
                      /\ cfg_proxy' = cfg_proxy
       IN  /\ \A out \in ApiOutcomes :
                 (Stage1Response(out) /\ out.kind = "empty")
                    => (NoError /\ failed' = failed /\ pc' = "poll")
           /\ \A w \in WebPayloads :
                 (Stage2Response(w) /\ EmptyAssets(w)) => NoError
           /\ \A w \in WebPayloads :
                 (Stage3Response(w) /\ EmptyAssets(w)) => NoError]_vars

\* the order of the positions inside one page request
StageOrder(k) ==
    CASE k = "stage1" -> 1 [] k = "api_wait" -> 2 [] k = "poll" -> 3
      [] k = "stage2_go" -> 4 [] k = "web_wait" -> 5 [] k = "stage3" -> 6
      [] k = "retry_wait" -> 7 [] OTHER -> 0

\* C28: while a request of the page request is in flight, the client that
\* issued it is configured with the assigned proxy (config.proxy), so that
\* the proxy marked failed or successful on its answer is the proxy the
\* request went through, also with two or more usable proxies in the pool.
C28_RequestThroughAssignedProxy ==
    pc \in {"api_wait", "web_wait", "retry_wait"} => via = cfg_proxy

\* C30: stage 3 issues its request only if max_retries is greater than 1
\* and the pool gives a proxy other than the assigned one; it then sets the
\* mode to WEB, assigns that proxy and issues exactly one more anonymous
\* request, through that proxy; no step of stage 3 lets an exception out,
\* and a ban, an empty result or an exception ends the page request with
\* None.
C30_FinalRetry ==
    [][/\ (Stage3 /\ pc' = "retry_wait") =>
            /\ page.max_retries > 1
            /\ cfg_proxy' # None /\ cfg_proxy' # cfg_proxy
            /\ cfg_proxy' \in Elems(proxies)
            /\ mode' = "web"
            /\ via' = cfg_proxy'
            /\ page'.anon = page.anon + 1
            /\ total' = total + 1
       /\ (Stage3 /\ pc' # "retry_wait") =>
            (pc' = "idle" /\ result'.kind = "none")
       /\ \A w \in WebPayloads :
            Stage3Response(w) =>
               /\ pc' = "idle"
               /\ result'.kind \in {"response", "none"}
               /\ (w.kind # "parsed" \/ EmptyAssets(w)) => result'.kind = "none"
               /\ page'.anon = page.anon /\ total' = total]_vars

\* C34: when direct connection is not allowed, every request in flight,
\* the signed one of stage 1 and the anonymous ones of stages 2 and 3, goes
\* through a proxy.
C34_NoDirectRequest ==
    (~allow_direct /\ pc \in {"api_wait", "web_wait", "retry_wait"}) => via # None

\* C40: whenever a page request has returned, the successes and the
\* failures counted since the last reset of the counters are together at
\* most the attempts counted, the bans are at most the failures, and the
\* page request has added at most 1 to the successes.
C40_CounterBounds ==
    (pc = "idle" /\ pages > 0) =>
       /\ success + failures <= total
       /\ ban_count <= failures
       /\ success <= page.success0 + 1

\* C22: a page request goes through its stages in order, each at most
\* once (the only step that stays where it is is a poll of stage 2, at most
\* 8 times); it issues at most one signed fetch and at most two anonymous
\* requests, adds at most 3 to the total-attempts counter, and ends by
\* returning a response or no data.
C22_OnePassThroughStages ==
    [][/\ (pc # "idle" /\ pc' \notin {"idle", "crashed"}) =>
            /\ StageOrder(pc') >= StageOrder(pc)
            /\ (StageOrder(pc') = StageOrder(pc) /\ ~UNCHANGED engState)
                    => (pc = "poll" /\ retry' = retry + 1)
       /\ retry' <= Polls
       /\ page'.signed <= 1
       /\ page'.anon <= 2
       /\ pc # "idle" => total' - page'.total0 <= 3
       /\ (pc \notin {"idle", "crashed"} /\ pc' \in {"idle", "crashed"})
            => (pc' = "idle" /\ result'.kind \in {"response", "none"})]_vars

(***************************************************************************)
(* Properties of the page-iteration pass                                   *)
(***************************************************************************)
\* C31: within one pass the page requests are issued one at a time, for
\* the pages 1, 2, 3, ... in this order and without gaps: the page asked
\* for is always one more than the number of page requests issued so far,
\* so no page is asked for twice, a failed page included.
C31_PagesInOrder ==
    [][/\ (SearchAllLoop /\ sa'.pc = "search") =>
            /\ pc = "idle"
            /\ sa.pageno = pages + 1
            /\ pages' = pages + 1
            /\ sa'.pageno = sa.pageno
       /\ pages' # pages => (SearchAllLoop /\ sa'.pc = "search")
       /\ sa'.pageno # sa.pageno =>
            /\ sa.pc = "search" /\ pc = "idle"
            /\ sa'.pageno = sa.pageno + 1
            /\ sa'.pc = "loop"]_vars

\* the third page is being requested after the second one failed
C31_Witness ==
    /\ sa.pc = "search" /\ pc # "idle"
    /\ sa.pageno = 3 /\ pages = 3
    /\ sa.consecutive_failures = 1
    /\ sa.all_results # <<>>

\* C37: a page request returns a response only with at least one asset in
\* it; every page the pass takes as successful makes its list of results
\* longer, and a page that got empty assets from every client it asked is
\* counted as a failed page.
C37_ResponseHasAssets ==
    [][/\ (pc # "idle" /\ pc' = "idle" /\ result'.kind = "response")
            => result'.assets # <<>>
       /\ (SearchAllAfter /\ pc = "idle" /\ result.kind = "response")
            => /\ Len(sa'.all_results) > Len(sa.all_results)
               /\ sa'.consecutive_failures = 0
       /\ (SearchAllAfter /\ QuietPage)
            => sa'.consecutive_failures = sa.consecutive_failures + 1]_vars

\* C15: a pass returns only because the accumulated count has reached the
\* target, the page limit is passed, the pool is exhausted (empty) while
\* direct connection is disallowed, or the consecutive failures have
\* reached the threshold; and after a successful page that leaves the
\* count below the target and the page number below the limit the next
\* page is requested.
C15_StopReasons ==
    [][/\ (sa.pc = "loop" /\ sa'.pc = "done")
            => \/ Len(sa.all_results) >= sa.end_count
               \/ sa.pageno > sa.max_pages
       /\ (sa.pc = "search" /\ sa'.pc = "done")
            => \/ Len(sa'.all_results) >= sa.end_count
               \/ sa'.consecutive_failures >= sa.threshold
               \/ result.kind = "none" /\ proxies = <<>> /\ ~allow_direct
       /\ (/\ SearchAllAfter /\ pc = "idle" /\ result.kind = "response"
           /\ Len(sa'.all_results) < sa.end_count
           /\ sa.pageno < sa.max_pages)
            => (sa'.pc = "loop" /\ sa'.pageno = sa.pageno + 1)]_vars

\* C16: the list a pass holds, and returns, never has more entries than
\* the target count and is a prefix of the results of the successful pages
\* in page order; when those pages yielded at least the target count, the
\* returned list has exactly the target count of entries.
C16_ResultIsPrefix ==
    sa.pc # "off" =>
        /\ Len(sa.all_results) <= sa.end_count
        /\ Len(sa.all_results) <= Len(sa.fetched)
        /\ sa.all_results = SubSeq(sa.fetched, 1, Len(sa.all_results))
        /\ (sa.pc = "done" /\ Len(sa.fetched) >= sa.end_count)
                => Len(sa.all_results) = sa.end_count

\* C16 happens: a pass with target 3 has returned 3 entries after two
\* successful pages of 2 results each.
C16_Witness ==
    /\ sa.pc = "done"
    /\ sa.end_count = MaxTarget
    /\ sa.pageno = 2
    /\ Len(sa.fetched) = MaxTarget + 1
    /\ Len(sa.all_results) = MaxTarget

\* C17: every successful page resets the consecutive-failure counter to 0,
\* every failed page adds one to it and the pass returns as soon as it
\* reaches the threshold; and a pass with threshold 3 (page limit >= 3) in
\* which every page gets empty assets from both clients goes on after
\* pages 1 and 2 and returns the empty list after page 3.
C17_ThreeEmptyPages ==
    [][/\ (SearchAllAfter /\ pc = "idle" /\ result.kind = "response")
            => sa'.consecutive_failures = 0
       /\ (SearchAllAfter /\ pc = "idle" /\ result.kind = "none")
            => /\ sa'.consecutive_failures = sa.consecutive_failures + 1
               /\ sa'.consecutive_failures >= sa.threshold => sa'.pc = "done"
       /\ (/\ SearchAllAfter /\ sa'.quiet
           /\ sa.threshold = DefaultThreshold
           /\ sa.max_pages >= DefaultThreshold)
            => IF sa.pageno < DefaultThreshold
               THEN sa'.pc = "loop" /\ sa'.pageno = sa.pageno + 1
               ELSE sa'.pc = "done" /\ sa'.all_results = <<>>]_vars

\* C18: with an empty pool and direct connection disallowed the first page
\* request returns no data, and the pass is over by the third consecutive
\* failure.
C18_EmptyPoolAborts ==
    (proxies = <<>> /\ ~allow_direct) =>
        /\ (pages = 1 /\ pc = "idle") => result.kind = "none"
        /\ sa.consecutive_failures >= DefaultThreshold => sa.pc = "done"

\* C19: a page that failed because no proxy was assigned after the polls
\* and direct connection is disallowed does not end the pass: unless the
\* failure threshold or the page limit is reached, the next page is
\* requested.
C19_ExhaustionIsPerPage ==
    [][(/\ SearchAllAfter /\ pc = "idle" /\ result.kind = "none"
        /\ page.web.kind = "none" /\ retry = Polls
        /\ NoProxyRefused(cfg_proxy, allow_direct)
        /\ sa.consecutive_failures + 1 < sa.threshold
        /\ sa.pageno < sa.max_pages)
          => (sa'.pc = "loop" /\ sa'.pageno = sa.pageno + 1)]_vars

(***************************************************************************)
(* Properties of the orchestrator                                          *)
(***************************************************************************)
\* C20: a run makes at most two passes.  The orchestrator waits for the
\* pool only if the first pass returned fewer than min(count, 10) results
\* and the pool was not ready then; it tests the pool's readiness at most
\* 15 times; the second pass starts only after that wait, with the pool
\* ready and holding at least 3 proxies, and with the four session
\* counters at zero; no pass is started after the second.  The final
\* result is the second pass's result if it is strictly longer than the
\* first pass's, and the first pass's result otherwise and whenever no
\* second pass ran.
C20_SecondPass ==
    [][/\ npass' <= 2 /\ orch'.polls <= ReadyPolls
       /\ (sa.pc \in {"done", "crashed"} /\ sa'.pc # sa.pc)
            => (orch.pc = "check" /\ orch'.pc = "pass2" /\ npass = 1)
       /\ (orch.pc # "wait" /\ orch'.pc = "wait")
            => /\ orch.pc = "pass1"
               /\ Len(sa.all_results) < Min(orch.count, UnderDelivery)
               /\ ~is_ready
       /\ (orch.pc # "check" /\ orch'.pc = "check") => orch.pc = "wait"
       /\ (orch.pc # "pass2" /\ orch'.pc = "pass2")
            => /\ orch.pc = "check"
               /\ is_ready /\ Len(proxies) >= MinPool
               /\ total' = 0 /\ success' = 0 /\ failures' = 0 /\ ban_count' = 0
               /\ sa'.pc = "loop" /\ sa'.all_results = <<>>
       /\ (orch.pc = "pass1" /\ orch'.pc # "pass1")
            => orch'.results = sa.all_results
       /\ (orch.pc \in {"wait", "check"}) => orch'.results = orch.results
       /\ (orch.pc = "pass2" /\ orch'.pc # "pass2")
            => /\ orch'.pc = "done"
               /\ orch'.results = IF Len(sa.all_results) > Len(orch.results)
                                  THEN sa.all_results ELSE orch.results
       /\ orch.pc = "done" => orch' = orch]_vars

\* C20 happens: the run is over after a second pass that followed a wait
\* for the pool and whose result, not being longer than the first pass's
\* and differing from it, was dropped.
C20_Witness ==
    /\ orch.pc = "done"
    /\ npass = 2
    /\ orch.polls > 0
    /\ Len(proxies) >= MinPool
    /\ Len(orch.new_results) = Len(orch.results)
    /\ orch.new_results # orch.results
    /\ orch.results # <<>>

\* C21: the foreground's run ends whatever the collection cycle does, also
\* when the cycle never completes and never marks the pool ready: a page
\* request polls the pool at most 8 times, the orchestrator tests the
\* pool's readiness at most 15 times, a pass requests at most max_pages
\* pages, and when the wait ends with the pool not ready the run ends with
\* the first pass's result.
C21_ForegroundTerminates ==
    /\ [][/\ retry' <= Polls
           /\ orch'.polls <= ReadyPolls
           /\ pages' <= npass' * OrchMaxPages
           /\ (sa'.pc = "search" => sa'.pageno <= sa'.max_pages)
           /\ (OrchCheck /\ ~is_ready)
                => (orch'.pc = "done" /\ orch'.results = orch.results)]_vars
    /\ <>(orch.pc = "done")

\* C21 happens: the run is over after 15 tests of the pool's readiness
\* while the collection cycle is still fetching and the pool is not ready.
C21_Witness ==
    /\ orch.pc = "done"
    /\ orch.polls = ReadyPolls
    /\ cyc[1].pc = "fetch"
    /\ ~is_ready
    /\ proxies = <<>>

(***************************************************************************)
(* Properties of the pool                                                  *)
(***************************************************************************)
\* C3 as stated: a proxy p on which mark_failed was called 3 times with no
\* mark_success in between is not returned by get_proxy for as long as,
\* ever since the call that completed the three, some other proxy of the
\* pool has been usable.
C3_RetiredIsSkipped == [][GetProxy => \A p \in held : ret' # p]_vars

\* C3 amended: a proxy p on which mark_failed was called 3 times with no
\* mark_success(p) and no reset of the failure counts by get_proxy in
\* between is not returned by a get_proxy call made while some other proxy
\* of the pool is usable.
C3_RetiredIsSkippedUntilReset ==
    [][GetProxy =>
         \A p \in Proxy :
            (streak[p] >= FailLimit /\ OtherUsable(p, proxies, failed)) => ret' # p]_vars

\* C3 happens: get_proxy has just returned a proxy of the pool, passing
\* over a proxy of the pool that was struck 3 times since the last reset.
C3_Witness ==
    /\ op = "get_proxy"
    /\ ret \in Elems(proxies)
    /\ \E p \in Proxy : /\ streak[p] >= FailLimit
                        /\ p \in Elems(proxies)
                        /\ p # ret
                        /\ idx = 0 /\ proxies[Len(proxies)] = ret /\ Len(proxies) > 1

\* C4: on a non-empty pool whose proxies all have a count >= 3, get_proxy
\* clears every count and returns a proxy of the pool, whose count is then
\* 0; when some proxy has a count < 3, get_proxy leaves the counts alone.
C4_ResetPolicy ==
    [][GetProxy =>
         IF proxies # <<>> /\ AllExhausted(proxies, failed)
         THEN /\ failed' = EmptyDict
              /\ ret' \in Elems(proxies)
              /\ Get(failed', ret') = 0
         ELSE failed' = failed]_vars

\* C5: get_proxy on an empty pool returns None, get_next_proxy on a pool of
\* one proxy with a count >= 3 returns None whatever its argument, and
\* neither call changes the proxies, the counts or the cursor.
C5_BoundaryResults ==
    [][/\ (GetProxy /\ proxies = <<>>)
            => (ret' = None /\ UNCHANGED <<proxies, failed, idx>>)
       /\ \A x \in Proxy \cup {None} :
            (GetNextProxy(x) /\ Len(proxies) = 1 /\ ~Usable(failed, proxies[1]))
            => (ret' = None /\ UNCHANGED <<proxies, failed, idx>>)]_vars

\* C5 happens: get_next_proxy has just returned None on a pool of one
\* exhausted proxy.
C5_Witness ==
    /\ op = "get_next_proxy"
    /\ ret = None
    /\ Len(proxies) = 1
    /\ ~Usable(failed, proxies[1])

\* C6: with one thread calling auto_refresh, a call made while a cycle is
\* running returns without starting anything (the flag, the threads and the
\* pool are left as they were), a call starts a cycle only when none is
\* running, and so two calls in succession leave at most one cycle running.
C6_SecondCallIsNoOp ==
    [][/\ (AutoRefreshCheck(1) /\ InFlight # {})
            => (caller' = caller /\ UNCHANGED <<poolVars, cyc>>)
       /\ AutoRefreshStart(1)
            => (InFlight = {} /\ Cardinality(InFlight') = 1)
       /\ Cardinality(InFlight') <= 1]_vars

\* C6 happens: the last call of the foreground was an auto_refresh that
\* returned at the test of the flag while a cycle was running.
C6_Witness ==
    /\ op = "auto_refresh"
    /\ caller[1] = "idle"
    /\ InFlight # {}

\* C7: whatever the interleaving of the threads calling auto_refresh and of
\* the cycles, at most one collection cycle is in flight.
C7_OneCycleInFlight == Cardinality(InFlight) <= 1

\* C9: when a cycle ends its validation, every proxy of the pool was
\* validated in that cycle; when no candidate validated, the pool is empty
\* (whatever it held and whatever allow_direct is) and is marked ready.
C9_OnlyValidatedProxies ==
    [][\A t \in Slots :
         /\ (\E v \in Outcomes(wave1(cyc[t].collected)) :
                 CycleValidate(t, v) /\ cyc'[t].pc # "validate2")
              => Elems(proxies') \subseteq Elems(cyc'[t].valid)
         /\ (\E v \in Outcomes(wave2(cyc[t].collected, cyc[t].valid)) :
                 CycleValidate2(t, v))
              => Elems(proxies') \subseteq Elems(cyc'[t].valid) \cup Elems(cyc'[t].more_valid)
         /\ CycleValidate(t, <<>>)
              => (proxies' = <<>> /\ is_ready')]_vars

\* C10: the first wave tests at most the first 20 candidates; with 5 or
\* more valid the pool becomes exactly the valid ones and no second wave
\* runs; with 1 to 4 valid a second wave over at most 50 of the remaining
\* candidates runs and the pool becomes the valid ones of both waves; in
\* both cases the cycle then marks the pool ready.
C10_AdoptionThresholds ==
    [][\A t \in Slots :
         /\ (cyc[t].pc = "validate" /\ cyc'[t].valid # <<>>)
              => /\ Elems(cyc'[t].valid) \subseteq
                        Elems(SubSeq(cyc[t].collected, 1, Min(FirstWave, Len(cyc[t].collected))))
                 /\ IF Len(cyc'[t].valid) >= AdoptMin
                    THEN proxies' = cyc'[t].valid /\ cyc'[t].pc = "fill"
                    ELSE cyc'[t].pc = "validate2"
         /\ (cyc[t].pc = "validate2" /\ cyc'[t].pc # "validate2")
              => /\ Elems(cyc'[t].more_valid) \subseteq
                        Elems(cyc[t].collected) \ Elems(cyc[t].valid)
                 /\ Len(wave2(cyc[t].collected, cyc[t].valid)) <= SecondWave
                 /\ Elems(cyc'[t].more_valid) \subseteq
                        Elems(wave2(cyc[t].collected, cyc[t].valid))
                 /\ proxies' = cyc[t].valid \o cyc'[t].more_valid
                 /\ cyc'[t].pc = "fill"
         /\ (cyc[t].pc = "fill" /\ cyc'[t].pc # "fill") => is_ready']_vars

\* C11: every launched collection cycle eventually marks the pool ready,
\* also when nothing is collected, when nothing validates, and when the
\* fetch or a validation wave exceeds its time budget.
C11_CycleMarksReady == \A t \in Slots : (cyc[t].pc = "fetch") ~> is_ready

\* C26: add_proxy(p) appends p at the end of the list if p is not empty and
\* not yet in the list, and changes nothing otherwise; whatever add_proxy
\* calls and swap-ins of the collection cycle have happened, no proxy is
\* in the list twice.
C26_AddProxyNoDuplicates ==
    [][/\ \A p \in Proxy \cup {None} :
            AddProxy(p) =>
               IF p # None /\ (\A k \in 1..Len(proxies) : proxies[k] # p)
               THEN /\ Len(proxies') = Len(proxies) + 1
                    /\ proxies'[Len(proxies')] = p
                    /\ SubSeq(proxies', 1, Len(proxies)) = proxies
               ELSE proxies' = proxies
       /\ \A i, j \in 1..Len(proxies) : proxies[i] = proxies[j] => i = j
       /\ \A i, j \in 1..Len(proxies') : proxies'[i] = proxies'[j] => i = j]_vars

\* the last call was add_proxy, and the list is what a swap-in of the cycle
\* installed followed by one proxy more
C26_Witness ==
    /\ op = "add_proxy"
    /\ \E t \in Slots :
          /\ cyc[t].pc \in {"fill", "finally"}
          /\ cyc[t].valid # <<>>
          /\ proxies # cyc[t].valid \o cyc[t].more_valid
          /\ Take(proxies, Len(proxies) - 1) = cyc[t].valid \o cyc[t].more_valid

\* C27: mark_failed(p) raises the failure count of p by exactly 1 and
\* changes no other count; mark_success(p) lowers the count of p by 1, not
\* below 0, keeps the entry of p if there is one and creates none; no
\* failure count is ever negative.
C27_FailureCounts ==
    [][/\ \A p \in Proxy :
            MarkFailed(p) =>
               /\ DOMAIN failed' = DOMAIN failed \cup {p}
               /\ failed'[p] = Get(failed, p) + 1
               /\ \A q \in DOMAIN failed \ {p} : failed'[q] = failed[q]
       /\ \A p \in Proxy :
            MarkSuccess(p) =>
               /\ DOMAIN failed' = DOMAIN failed
               /\ p \in DOMAIN failed =>
                     failed'[p] = (IF failed[p] >= 1 THEN failed[p] - 1 ELSE 0)
               /\ \A q \in DOMAIN failed \ {p} : failed'[q] = failed[q]
       /\ \A q \in DOMAIN failed : failed[q] >= 0
       /\ \A q \in DOMAIN failed' : failed'[q] >= 0]_vars

\* after a mark_success one proxy has an entry with count 0 and the other
\* proxy has no entry
C27_Witness ==
    /\ op = "mark_success"
    /\ \E p \in Proxy :
          /\ p \in DOMAIN failed /\ failed[p] = 0
          /\ \E q \in Proxy : q \notin DOMAIN failed

\* C29: a collection cycle changes the list of proxies only by one
\* replacement, at its swap-in, and the swap-in only adds: every proxy that
\* was in the list before a step of the cycle is in the list after it.
C29_SwapInOnlyAdds ==
    [][\A t \in Slots :
         cyc'[t] # cyc[t] =>
            /\ proxies' # proxies =>
                  /\ cyc[t].pc \in {"validate", "validate2"}
                  /\ cyc'[t].pc \in {"fill", "finally"}
            /\ \A k \in 1..Len(proxies) : \E j \in 1..Len(proxies') : proxies'[j] = proxies[k]]_vars

\* C29, amended: a collection cycle changes the list of proxies only by one
\* replacement, at its swap-in, which installs the complete list of the
\* proxies validated in this cycle (the empty list when none validated and
\* direct connection is allowed); a proxy that was in the list before is
\* in it afterwards only if it validated in this cycle.
C29_SwapInReplaces ==
    [][\A t \in Slots :
         (cyc'[t] # cyc[t] /\ proxies' # proxies) =>
            /\ cyc[t].pc \in {"validate", "validate2"}
            /\ cyc'[t].pc \in {"fill", "finally"}
            /\ cyc'[t].pc = "finally" => (allow_direct /\ cyc'[t].valid = <<>>)
            /\ proxies' = cyc'[t].valid \o cyc'[t].more_valid
            /\ \A k \in 1..Len(proxies) :
                  (\E j \in 1..Len(proxies') : proxies'[j] = proxies[k])
                     => proxies[k] \in Elems(cyc'[t].valid) \cup Elems(cyc'[t].more_valid)]_vars

\* add_proxy was called with one of the foreground's proxies, and the list
\* is now the one a cycle validated, which holds none of them
C29_Witness ==
    /\ op = "add_proxy"
    /\ proxies # <<>>
    /\ \A p \in Proxy : p \notin Elems(proxies)
    /\ \E t \in Slots :
          /\ cyc[t].pc = "fill"
          /\ proxies = cyc[t].valid \o cyc[t].more_valid

\* C32: get_proxy on a pool that is not empty returns the first proxy in
\* cyclic order from the cursor that is usable (after the reset, if the
\* reset applies) and leaves the cursor just after it; hence, when all
\* proxies are usable, a get_proxy that follows a get_proxy returns the
\* proxy next in the list to the one returned before.
C32_RoundRobin ==
    [][(GetProxy /\ proxies # <<>>) =>
          LET n == Len(proxies)
              At(k) == proxies[((idx + k) % n) + 1]
              Fits == {k \in 0..(n - 1) : Usable(failed', At(k))}
              first == CHOOSE k \in Fits : \A j \in Fits : k <= j
          IN  /\ Fits # {} =>
                    /\ ret' = At(first)
                    /\ idx' = (idx + first + 1) % n
              /\ Fits = {} => ret' = None
              /\ (/\ op = "get_proxy" /\ ret \in Elems(proxies)
                  /\ proxies[((idx + n - 1) % n) + 1] = ret
                  /\ \A k \in 1..n : Usable(failed, proxies[k]))
                    => (ret' = At(0) /\ (n > 1 => ret' # ret))]_vars

C36_ReturnedIsUsableMember ==
    [][(GetProxy \/ \E x \in Proxy \cup {None} : GetNextProxy(x)) =>
          (ret' \notin {None, IndexError} =>
              /\ \E k \in 1..Len(proxies') : proxies'[k] = ret'
              /\ Get(failed', ret') < FailLimit)]_vars

\* a call returned a proxy while the other proxy of the list was exhausted
C36_Witness ==
    /\ op \in {"get_proxy", "get_next_proxy"}
    /\ Len(proxies) = 2
    /\ ret \in Elems(proxies)
    /\ \E p \in Elems(proxies) : p # ret /\ Get(failed, p) >= FailLimit

\* C38: mark_failed, mark_success, get_proxy and get_next_proxy leave the
\* list of proxies as it is, members and order: a proxy whose count
\* reaches the threshold stays in the list; the list changes only by
\* add_proxy and by a step of a collection cycle; get_next_proxy changes
\* no failure count and get_proxy changes them only by its reset.
C38_ListOnlyChangedByAddAndSwapIn ==
    [][/\ (\/ GetProxy
           \/ \E p \in Proxy : MarkFailed(p) \/ MarkSuccess(p)
           \/ \E x \in Proxy \cup {None} : GetNextProxy(x))
            => proxies' = proxies
       /\ proxies' # proxies =>
            \/ \E p \in Proxy : AddProxy(p)
            \/ \E t \in Slots : cyc'[t] # cyc[t] /\ cyc[t].pc \in {"validate", "validate2"}
       /\ (\E x \in Proxy \cup {None} : GetNextProxy(x)) => failed' = failed
       /\ GetProxy =>
            \/ failed' = failed
            \/ /\ proxies # <<>>
               /\ \A k \in 1..Len(proxies) : Get(failed, proxies[k]) >= FailLimit
               /\ failed' = EmptyDict]_vars

\* after a mark_failed a proxy with three failures is still in the list
C38_Witness ==
    /\ op = "mark_failed"
    /\ Len(proxies) = 2
    /\ \E k \in 1..Len(proxies) : Get(failed, proxies[k]) >= FailLimit

\* C39: every collection cycle ends, whichever way it takes (nothing
\* collected, nothing valid, a time-out, or the swap-in and the marking),
\* and clears the flag as it ends: the flag is never set while no cycle is
\* running, a set flag is cleared in the end, and an auto_refresh call made
\* when no cycle is running is not turned away.
C39_FlagIsCleared ==
    /\ [](refreshing => \E t \in Slots : Running(t))
    /\ [][/\ \A t \in Slots : (Running(t) /\ ~Running(t)') => ~refreshing'
          /\ (AutoRefreshCheck(1) /\ \A t \in Slots : ~Running(t))
                => caller'[1] = "checked"]_vars
    /\ \A t \in Slots : Running(t) ~> (~Running(t) /\ ~refreshing)

\* a cycle has been started after an earlier one had marked the pool ready
\* and ended
C39_Witness ==
    /\ op = "thread_start"
    /\ is_ready
    /\ refreshing
    /\ cyc[1].pc = "fetch"
    /\ ~Running(2)

\* C25: get_next_proxy(x) on a pool of two or more proxies returns the first
\* proxy in cyclic order from the cursor that is usable and is not x, when
\* there is one; when there is none it returns the first proxy of the list
\* if that one is usable (even if it is x) and None otherwise; on a pool of
\* one proxy it returns that proxy if it is usable and None otherwise,
\* whatever x is.
C25_NextProxyInCyclicOrder ==
    [][\A x \in Three \cup {None} :
         (GetNextProxy(x) /\ proxies # <<>>) =>
            LET n == Len(proxies)
                At(k) == proxies[((idx + k) % n) + 1]
                Fits == {k \in 0..(n - 1) : At(k) # x /\ Usable(failed, At(k))}
                first == CHOOSE k \in Fits : \A j \in Fits : k <= j
                fallback == IF Usable(failed, proxies[1]) THEN proxies[1] ELSE None
            IN  IF n >= 2 /\ Fits # {} THEN ret' = At(first) ELSE ret' = fallback]_vars

\* C8: whenever the pool is not empty the cursor is an index of the list,
\* and no call indexes out of range.
C8_CursorInRange ==
    /\ proxies # <<>> => (0 <= idx /\ idx < Len(proxies))
    /\ ret # IndexError

=============================================================================
